---- MODULE Spec2Model ----
(***************************************************************************)
(* dev-prism: the session / port allocation engine.                        *)
(*                                                                         *)
(* Two registries are modelled, one per schema variant of the repository:  *)
(*   - the path-keyed registry of lib/db (tables sessions,                 *)
(*     port_allocations, reservations) with the commands create and        *)
(*     destroy and the allocator allocatePorts, run by independent         *)
(*     invocations (operating-system processes) that interleave at every   *)
(*     SQL statement and at every await;   specification Spec              *)
(*   - the SessionStore of lib/store (table sessions with a soft-delete    *)
(*     marker);                            specification SpecStore         *)
(***************************************************************************)
EXTENDS Integers, Sequences, FiniteSets, TLC

\* ------------------------------------------------------------------ bounds
MaxPort  == 3            \* the prober hands out ports 1..MaxPort
MaxReserved == 1         \* reservePort is called with ports 1..MaxReserved
MaxRowId == 3            \* SessionStore: rows inserted over the life of the store
MaxSessions == 2         \* commands: sessions created over the life of the store

\* Two invocations run at a time; when one has ended the next one starts, so
\* any number of invocations run one after another.
Procs == {"p1", "p2"}
Ports == 1..MaxPort
Reservable == 1..MaxReserved
NoProc == "none"

\* The working directories invocations run in. The registry file is shared by
\* all projects of the user: DirA is the root of one project (a session created
\* with --in-place), DirB a worktree directory under the sessions directory of
\* another project.
DirA == "/a"
DirB == "/b/sessions/feature"
Dirs == {DirA, DirB}
inPlace(dir) == dir = DirA

\* config.ports of the project a directory belongs to: the services
\* createSession asks ports for.
ConfigPorts(dir) == IF dir = DirA THEN <<"app", "db">> ELSE <<"web">>

VARIABLES
    sessions,          \* table sessions: the set of ids (working directories)
    port_allocations,  \* table port_allocations: committed rows
    reservations,      \* table reservations: the set of reserved ports
    wlock,             \* the invocation inside a write transaction, or NoProc
    pending,           \* rows written by wlock's open transaction, not committed
    inv,               \* per invocation: program counter and locals
    rows,              \* SessionStore: table sessions
    seq,               \* SessionStore: AUTOINCREMENT counter
    last,              \* SessionStore: the last call and its outcome
    call,              \* findNextSessionId: the last call, its argument and outcome
    we,                \* withEnv: program counter and locals of the invocation
    world,             \* the disk: worktree directories and .env.session files
    cmd,               \* the last command run to its end, and what it did
    creating           \* per process of the store generation: where its create stands

dbvars == <<sessions, port_allocations, reservations, wlock, pending, inv>>
storevars == <<rows, seq, last>>
purevars == <<call, we>>
cmdvars == <<world, cmd, creating>>
vars == <<sessions, port_allocations, reservations, wlock, pending, inv,
          rows, seq, last, call, we, world, cmd, creating>>

\* ------------------------------------------------------- lib/db: statements
OK == "OK"
UNIQUE == "SQLITE_CONSTRAINT_UNIQUE"
PRIMARYKEY == "SQLITE_CONSTRAINT_PRIMARYKEY"
FOREIGNKEY == "SQLITE_CONSTRAINT_FOREIGNKEY"
NOPORT == "No available ports found"
WORKTREE == "worktree error"

Row(sessionId, service, port) == [session_id |-> sessionId, service |-> service, port |-> port]

\* SELECT port FROM port_allocations
getAllocatedPorts(pa) == {r.port : r \in pa}

\* SELECT port FROM reservations
getReservedPortsNone(res) == {}

getReservedPorts(res) == res

\* SELECT session_id, service, port FROM port_allocations WHERE session_id = ?
getPortAllocations(pa, sessionId) == {r \in pa : r.session_id = sessionId}

\* The outcome of INSERT INTO port_allocations of one row, against the rows the
\* writer sees (committed and its own pending ones) and the sessions table:
\* PRIMARY KEY (session_id, service), then port UNIQUE, then the foreign key
\* (checked at the end of the statement, foreign_keys = ON).
InsertErrorNoUnique(row, visible, sess) ==
    IF \E r \in visible : r.session_id = row.session_id /\ r.service = row.service
    THEN PRIMARYKEY
    ELSE IF row.session_id \notin sess THEN FOREIGNKEY ELSE OK

InsertErrorNoPk(row, visible, sess) ==
    IF \E r \in visible : r.port = row.port THEN UNIQUE
    ELSE IF row.session_id \notin sess THEN FOREIGNKEY ELSE OK

InsertError(row, visible, sess) ==
    IF \E r \in visible : r.session_id = row.session_id /\ r.service = row.service
    THEN PRIMARYKEY
    ELSE IF \E r \in visible : r.port = row.port THEN UNIQUE
    ELSE IF row.session_id \notin sess THEN FOREIGNKEY ELSE OK

\* DELETE FROM sessions WHERE id = ? : the port_allocations rows that remain
\* (ON DELETE CASCADE, foreign_keys = ON).
CascadeNone(pa, sessionId) == pa

Cascade(pa, sessionId) == {r \in pa : r.session_id # sessionId}

\* db.transaction(...): when a statement of the batch throws, or the process
\* dies before COMMIT, the rows the batch has written are rolled back; the
\* committed table is what it was.
rollbackKeepsRows(committed, written) == committed \cup written

rollback(committed, written) == committed

\* getPort({exclude}): the ports the prober may return.
getPortAny(exclude) == Ports

getPort(exclude) == Ports \ exclude

\* excludePorts.add(port)
AddExcludeForgotten(exclude, port) == exclude

AddExclude(exclude, port) == exclude \cup {port}

\* err.code === 'SQLITE_CONSTRAINT_UNIQUE' on the first attempt
ShouldRetryAnyConstraint(attempt, code) == attempt = 1 /\ code \in {UNIQUE, PRIMARYKEY, FOREIGNKEY}

ShouldRetryUnbounded(attempt, code) == code = UNIQUE

ShouldRetry(attempt, code) == attempt = 1 /\ code = UNIQUE

\* ------------------------------------------------------- invocation state
\* History fields, read by the properties only: seenAllocated is the ports
\* port_allocations held when the attempt read the table, firstError the
\* outcome of the first commit, cascaded whether the invocation's deleteDbSession
\* removed rows of port_allocations.
Idle == [pc |-> "idle", op |-> "none", dir |-> DirA,
         excludePorts |-> {}, allocations |-> <<>>, attempt |-> 1, error |-> OK,
         todo |-> {},
         seenAllocated |-> {}, firstError |-> OK, cascaded |-> FALSE]

AllocationPorts(allocs) == {allocs[i].port : i \in 1..Len(allocs)}
AllocationRows(allocs) == {allocs[i] : i \in 1..Len(allocs)}

\* No command has run: what a command leaves in cmd when it ends.
\* procs: the external processes it started; opened: whether it opened the
\* registry; attempted / warned: the sessions a prune or destroy went through.
\* answer / confirmed / running: what a prune was answered at its prompt, whether
\* it went on to remove, and the directories docker reported running.
NoCmd == [variant |-> "none", op |-> "none", sessionId |-> "", dir |-> "", inPlace |-> FALSE,
          exitCode |-> 0, error |-> "", failedAt |-> "none", opened |-> FALSE,
          procs |-> {}, attempted |-> {}, warned |-> {},
          answer |-> "", confirmed |-> FALSE, running |-> {}]
EmptyWorld == [worktrees |-> {}, envFiles |-> {}]
\* A process that runs no create.
NotCreating == [pc |-> "idle", sessionId |-> "", inPlace |-> FALSE, sessionDir |-> ""]

\* withEnv before it is invoked: no locals yet.
Unset == "<unset>"
EmptyEnv == [k \in {} |-> Unset]
WithEnvIdle == [pc |-> "none", cwd |-> "", appName |-> Unset, env |-> EmptyEnv,
                found |-> FALSE, rendered |-> FALSE, sessionEnv |-> EmptyEnv,
                child |-> "none", childEnv |-> EmptyEnv, childExitCode |-> 0,
                reported |-> FALSE, exitCode |-> 0]

Init ==
    /\ sessions = {}
    /\ port_allocations = {}
    /\ reservations = {}
    /\ wlock = NoProc
    /\ pending = {}
    /\ inv = [p \in Procs |-> Idle]
    /\ rows = {}
    /\ seq = 0
    /\ last = [op |-> "none", session_id |-> "", project_root |-> "", result |-> ""]
    /\ call = [op |-> "none", usedIds |-> {}, result |-> [threw |-> "", value |-> <<>>]]
    /\ we = WithEnvIdle
    /\ world = EmptyWorld
    /\ cmd = NoCmd
    /\ creating = [p \in Procs |-> NotCreating]

Set(p, r) == inv' = [inv EXCEPT ![p] = r]

\* The invocation ends normally; its locals are gone.
Returned(r) ==
    [r EXCEPT !.pc = "returned", !.excludePorts = {}, !.allocations = <<>>,
              !.seenAllocated = {}]

\* An error leaves the running function: inside createSession it reaches the
\* catch block; everywhere else the invocation ends with it.
Thrown(r, code) ==
    [r EXCEPT !.pc = IF r.op = "create" THEN "c_cleanup" ELSE "threw", !.error = code,
              !.excludePorts = {}, !.allocations = <<>>,
              !.seenAllocated = {}]

\* ------------------------------------------------------- commands/create
\* createSession, up to the existence check: getDbSession(db, workingDir).
CreateCheck(p) ==
    /\ inv[p].pc = "idle"
    /\ \E dir \in Dirs :
        Set(p, [inv[p] EXCEPT !.op = "create", !.dir = dir,
                              !.pc = IF dir \in sessions THEN "exited"
                                     ELSE IF inPlace(dir) THEN "c_insert" ELSE "c_worktree"])
    /\ UNCHANGED <<sessions, port_allocations, reservations, wlock, pending>>
    /\ UNCHANGED <<storevars, purevars, cmdvars>>

\* await createWorktree(...): git is an external process; it creates the
\* worktree or the call throws (directory exists, git fails).
CreateWorktree(p) ==
    /\ inv[p].pc = "c_worktree"
    /\ \/ Set(p, [inv[p] EXCEPT !.pc = "c_insert"])
       \/ Set(p, Thrown(inv[p], WORKTREE))
    /\ UNCHANGED <<sessions, port_allocations, reservations, wlock, pending>>
    /\ UNCHANGED <<storevars, purevars, cmdvars>>

\* createDbSession: INSERT INTO sessions; id is the primary key.
CreateDbSession(p) ==
    /\ inv[p].pc = "c_insert"
    /\ wlock = NoProc
    /\ IF inv[p].dir \in sessions
       THEN /\ Set(p, Thrown(inv[p], PRIMARYKEY))
            /\ UNCHANGED sessions
       ELSE /\ sessions' = sessions \cup {inv[p].dir}
            /\ Set(p, [inv[p] EXCEPT !.pc = "a_read"])
    /\ UNCHANGED <<port_allocations, reservations, wlock, pending>>
    /\ UNCHANGED <<storevars, purevars, cmdvars>>

\* The catch block of createSession: deleteDbSession(db, workingDir); the
\* worktree is removed (an external process) and the error re-thrown.
CreateCleanup(p) ==
    /\ inv[p].pc = "c_cleanup"
    /\ wlock = NoProc
    /\ sessions' = sessions \ {inv[p].dir}
    /\ port_allocations' = Cascade(port_allocations, inv[p].dir)
    /\ Set(p, [inv[p] EXCEPT !.pc = "threw",
                             !.cascaded = port_allocations' # port_allocations])
    /\ UNCHANGED <<reservations, wlock, pending>>
    /\ UNCHANGED <<storevars, purevars, cmdvars>>

\* The tail of createSession after allocatePorts returned (setup commands,
\* summary): no registry access.
CreateDone(r) == Returned(r)

\* ------------------------------------------------------- lib/db: allocatePorts
\* The loop over the services: await getPort({exclude}), excludePorts.add(port),
\* allocations.push(...). The set of outcomes; a record with ok = FALSE is
\* getPort finding no port.
RECURSIVE ProbeLoop(_, _, _, _)
ProbeLoop(sessionId, services, exclude, allocs) ==
    IF Len(allocs) = Len(services)
    THEN {[ok |-> TRUE, excludePorts |-> exclude, allocations |-> allocs]}
    ELSE IF getPort(exclude) = {}
    THEN {[ok |-> FALSE, excludePorts |-> exclude, allocations |-> allocs]}
    ELSE UNION {ProbeLoop(sessionId, services, AddExclude(exclude, port),
                          Append(allocs, Row(sessionId, services[Len(allocs) + 1], port)))
                : port \in getPort(exclude)}

\* getAllocatedPorts(db): the first read of an attempt (the entry of
\* allocatePorts, and the retry).
ReadAllocated(p) ==
    /\ inv[p].pc = "a_read"
    /\ IF Len(ConfigPorts(inv[p].dir)) = 0
       THEN Set(p, CreateDone(inv[p]))
       ELSE Set(p, [inv[p] EXCEPT !.pc = "a_readRes",
                                  !.excludePorts = getAllocatedPorts(port_allocations),
                                  !.seenAllocated = {r.port : r \in port_allocations}])
    /\ UNCHANGED <<sessions, port_allocations, reservations, wlock, pending>>
    /\ UNCHANGED <<storevars, purevars, cmdvars>>

\* getReservedPorts(db) completes the exclusion set; then the loop over the
\* services probes one port for each (the probes touch no registry state).
\* The exclusion set is not read again after the loop.
ReadReserved(p) ==
    /\ inv[p].pc = "a_readRes"
    /\ LET ex == inv[p].excludePorts \cup getReservedPorts(reservations)
       IN \E res \in ProbeLoop(inv[p].dir, ConfigPorts(inv[p].dir), ex, <<>>) :
            IF res.ok
            THEN Set(p, [inv[p] EXCEPT !.pc = "a_txn", !.excludePorts = {},
                                       !.seenAllocated = {},
                                       !.allocations = res.allocations])
            ELSE Set(p, Thrown(inv[p], NOPORT))
    /\ UNCHANGED <<sessions, port_allocations, reservations, wlock, pending>>
    /\ UNCHANGED <<storevars, purevars, cmdvars>>

\* insert.run inside db.transaction: the first statement takes the write lock;
\* a constraint error rolls the transaction back and reaches the catch block,
\* which retries once on SQLITE_CONSTRAINT_UNIQUE and re-throws otherwise.
TxnInsert(p) ==
    /\ inv[p].pc = "a_txn"
    /\ wlock \in {NoProc, p}
    /\ LET r == inv[p]
           row == r.allocations[Cardinality(pending) + 1]
           code == InsertError(row, port_allocations \cup pending, sessions)
       IN IF code = OK
          THEN /\ pending' = pending \cup {row}
               /\ wlock' = p
               /\ UNCHANGED port_allocations
               /\ Set(p, [r EXCEPT !.pc = IF Cardinality(pending') = Len(r.allocations)
                                          THEN "a_commit" ELSE "a_txn"])
          ELSE /\ pending' = {}
               /\ wlock' = NoProc
               /\ port_allocations' = rollback(port_allocations, pending)
               /\ IF ShouldRetry(r.attempt, code)
                  THEN Set(p, [r EXCEPT !.pc = "a_read", !.attempt = 2, !.firstError = code,
                                        !.excludePorts = {}, !.allocations = <<>>,
                                        !.seenAllocated = {}])
                  ELSE Set(p, Thrown([r EXCEPT !.firstError =
                                        IF r.attempt = 1 THEN code ELSE @], code))
    /\ UNCHANGED <<sessions, reservations>>
    /\ UNCHANGED <<storevars, purevars, cmdvars>>

\* COMMIT: the rows of the batch become visible together; allocatePorts
\* returns the list and createSession runs to its end.
TxnCommitWithoutLast(p) ==
    /\ inv[p].pc = "a_commit"
    /\ wlock = p
    /\ port_allocations' = port_allocations
                             \cup (pending \ {inv[p].allocations[Len(inv[p].allocations)]})
    /\ pending' = {}
    /\ wlock' = NoProc
    /\ Set(p, CreateDone(inv[p]))
    /\ UNCHANGED <<sessions, reservations>>
    /\ UNCHANGED <<storevars, purevars, cmdvars>>

TxnCommit(p) ==
    /\ inv[p].pc = "a_commit"
    /\ wlock = p
    /\ port_allocations' = port_allocations \cup pending
    /\ pending' = {}
    /\ wlock' = NoProc
    /\ Set(p, CreateDone(inv[p]))
    /\ UNCHANGED <<sessions, reservations>>
    /\ UNCHANGED <<storevars, purevars, cmdvars>>

\* The process is killed inside its transaction: the storage layer discards
\* the uncommitted rows.
Kill(p) ==
    /\ wlock = p
    /\ pending' = {}
    /\ wlock' = NoProc
    /\ port_allocations' = rollback(port_allocations, pending)
    /\ Set(p, [Returned(inv[p]) EXCEPT !.pc = "killed"])
    /\ UNCHANGED <<sessions, reservations>>
    /\ UNCHANGED <<storevars, purevars, cmdvars>>

\* ------------------------------------------------------- commands/destroy
\* destroySession without --all: getDbSession(db, workingDir).
Destroy(p) ==
    /\ inv[p].pc = "idle"
    /\ \E dir \in Dirs :
        Set(p, [inv[p] EXCEPT !.op = "destroy", !.dir = dir,
                              !.todo = IF dir \in sessions THEN {dir} ELSE {},
                              !.pc = IF dir \in sessions THEN "d_delete" ELSE "exited"])
    /\ UNCHANGED <<sessions, port_allocations, reservations, wlock, pending>>
    /\ UNCHANGED <<storevars, purevars, cmdvars>>

\* destroySession --all: listDbSessions(db).
DestroyAll(p) ==
    /\ inv[p].pc = "idle"
    /\ Set(p, [inv[p] EXCEPT !.op = "destroyAll", !.todo = sessions,
                             !.pc = IF sessions = {} THEN "returned" ELSE "d_delete"])
    /\ UNCHANGED <<sessions, port_allocations, reservations, wlock, pending>>
    /\ UNCHANGED <<storevars, purevars, cmdvars>>

\* destroySingleSession: deleteDbSession(db, sessionId); the worktree removal
\* that follows is an external process. With --all the sessions are taken in
\* the order of created_at, which the registry model does not keep: any order.
DestroySingleSession(p) ==
    /\ inv[p].pc = "d_delete"
    /\ wlock = NoProc
    /\ \E dir \in inv[p].todo :
        /\ sessions' = sessions \ {dir}
        /\ port_allocations' = Cascade(port_allocations, dir)
        /\ Set(p, [inv[p] EXCEPT !.dir = dir, !.todo = @ \ {dir},
                                 !.cascaded = @ \/ port_allocations' # port_allocations,
                                 !.pc = IF inv[p].todo = {dir} THEN "returned"
                                        ELSE "d_delete"])
    /\ UNCHANGED <<reservations, wlock, pending>>
    /\ UNCHANGED <<storevars, purevars, cmdvars>>

\* ------------------------------------------------------- lib/db: reservations
\* reservePort: INSERT INTO reservations; port is the primary key, so reserving
\* a reserved port throws and changes nothing. One statement of an invocation
\* of its own.
ReservePort ==
    /\ wlock = NoProc
    /\ \E port \in Reservable :
        reservations' = IF port \in reservations THEN reservations
                        ELSE reservations \cup {port}
    /\ UNCHANGED <<sessions, port_allocations, wlock, pending, inv>>
    /\ UNCHANGED <<storevars, purevars, cmdvars>>

\* unreservePort: DELETE FROM reservations WHERE port = ?
UnreservePort ==
    /\ wlock = NoProc
    /\ \E port \in Reservable : reservations' = reservations \ {port}
    /\ UNCHANGED <<sessions, port_allocations, wlock, pending, inv>>
    /\ UNCHANGED <<storevars, purevars, cmdvars>>

\* The invocation has ended; the next invocation runs.
Exit(p) ==
    /\ inv[p].pc \in {"returned", "threw", "exited", "killed"}
    /\ Set(p, Idle)
    /\ UNCHANGED <<sessions, port_allocations, reservations, wlock, pending>>
    /\ UNCHANGED <<storevars, purevars, cmdvars>>

\* ------------------------------------------------------- lib/store: SessionStore
\* The arguments the store is called with.
SessionIds == {"001", "002"}
ProjectRoots == {"/projects/app-a", "/projects/app-b"}
SessionDirs == {"/sessions/session-001", "/sessions/session-002"}
Null == "NULL"
\* datetime('now'): what the clock reads when the statement runs.
Now == {"2024-01-01 00:00:00", "2024-01-01 00:00:01"}
\* ORDER BY on a TEXT column: the ids and roots of the store in byte order.
TextOrder == <<"/projects/app-a", "/projects/app-b", "001", "002", "003">>
TextLess(a, b) ==
    \E i, j \in 1..Len(TextOrder) : TextOrder[i] = a /\ TextOrder[j] = b /\ i < j
\* What .get() returns when no row matches (rowids start at 1).
Undefined == [id |-> 0, session_id |-> "", project_root |-> "", session_dir |-> "",
              destroyed_at |-> "undefined"]

\* UNIQUE(session_id, project_root): the constraint is on the table, so it
\* counts every row, destroyed ones too.
UniqueConflictNever(rs, sessionId, projectRoot) == FALSE

UniqueConflict(rs, sessionId, projectRoot) ==
    \E r \in rs : r.session_id = sessionId /\ r.project_root = projectRoot

\* ... AND destroyed_at IS NULL, the filter every read carries.
ActiveAllRows(rs) == rs

Active(rs) == {r \in rs : r.destroyed_at = Null}

\* SessionStore.insert: the columns branch, mode and in_place take what the
\* caller passes and no modelled operation reads them.
Insert ==
    /\ seq < MaxRowId
    /\ \E sessionId \in SessionIds, projectRoot \in ProjectRoots, sessionDir \in SessionDirs :
        IF UniqueConflict(rows, sessionId, projectRoot)
        THEN /\ last' = [op |-> "insert", session_id |-> sessionId,
                         project_root |-> projectRoot, result |-> "UNIQUE constraint failed"]
             /\ UNCHANGED <<rows, seq>>
        ELSE /\ rows' = rows \cup {[id |-> seq + 1, session_id |-> sessionId,
                                    project_root |-> projectRoot, session_dir |-> sessionDir,
                                    destroyed_at |-> Null]}
             /\ seq' = seq + 1
             /\ last' = [op |-> "insert", session_id |-> sessionId,
                         project_root |-> projectRoot, result |-> "row"]
    /\ UNCHANGED <<dbvars, purevars, cmdvars>>

\* The rows of the WHERE clause of markDestroyed:
\* project_root = ? AND session_id = ? AND destroyed_at IS NULL
MarkDestroyedWhereAnyRow(rs, projectRoot, sessionId) ==
    {r \in rs : r.project_root = projectRoot /\ r.session_id = sessionId}

MarkDestroyedWhere(rs, projectRoot, sessionId) ==
    {r \in rs : r.project_root = projectRoot /\ r.session_id = sessionId
                 /\ r.destroyed_at = Null}

\* SessionStore.markDestroyed: UPDATE ... SET destroyed_at = datetime('now');
\* returns info.changes > 0.
MarkDestroyed ==
    /\ \E sessionId \in SessionIds, projectRoot \in ProjectRoots, now \in Now :
        LET hit == MarkDestroyedWhere(rows, projectRoot, sessionId)
        IN /\ rows' = (rows \ hit) \cup {[r EXCEPT !.destroyed_at = now] : r \in hit}
           /\ last' = [op |-> "markDestroyed", session_id |-> sessionId,
                       project_root |-> projectRoot,
                       result |-> IF hit # {} THEN "true" ELSE "false"]
    /\ UNCHANGED seq
    /\ UNCHANGED <<dbvars, purevars, cmdvars>>

\* The rows of the WHERE clause of remove: project_root = ? AND session_id = ?
RemoveWhereSessionOnly(rs, projectRoot, sessionId) ==
    {r \in rs : r.session_id = sessionId}

RemoveWhere(rs, projectRoot, sessionId) ==
    {r \in rs : r.project_root = projectRoot /\ r.session_id = sessionId}

\* SessionStore.remove: DELETE FROM sessions WHERE ...; returns info.changes > 0.
Remove ==
    /\ \E sessionId \in SessionIds, projectRoot \in ProjectRoots :
        LET hit == RemoveWhere(rows, projectRoot, sessionId)
        IN /\ rows' = rows \ hit
           /\ last' = [op |-> "remove", session_id |-> sessionId,
                       project_root |-> projectRoot,
                       result |-> IF hit # {} THEN "true" ELSE "false"]
    /\ UNCHANGED seq
    /\ UNCHANGED <<dbvars, purevars, cmdvars>>

\* ---- the reads of the store, each a SELECT over the table as it stands
\* ORDER BY: the rows of rs in ascending order of less(_, _), ties by rowid.
RECURSIVE OrderBy(_, _)
OrderBy(rs, byProject) ==
    IF rs = {} THEN <<>>
    ELSE LET before(a, b) ==
                 \/ byProject /\ TextLess(a.project_root, b.project_root)
                 \/ /\ byProject => a.project_root = b.project_root
                    /\ TextLess(a.session_id, b.session_id)
                 \/ /\ byProject => a.project_root = b.project_root
                    /\ a.session_id = b.session_id
                    /\ a.id < b.id
             first == CHOOSE r \in rs : \A q \in rs \ {r} : before(r, q)
         IN <<first>> \o OrderBy(rs \ {first}, byProject)

\* .get(): the first row of the scan, in rowid order, or undefined.
Get(rs) ==
    IF rs = {} THEN Undefined
    ELSE CHOOSE r \in rs : \A q \in rs : r.id <= q.id

listByProjectAnyProject(rs, projectRoot) == OrderBy(Active(rs), FALSE)

listByProject(rs, projectRoot) ==
    OrderBy({r \in Active(rs) : r.project_root = projectRoot}, FALSE)

listAll(rs) == OrderBy(Active(rs), TRUE)

findSession(rs, projectRoot, sessionId) ==
    Get({r \in Active(rs) : r.project_root = projectRoot /\ r.session_id = sessionId})

findByDir(rs, sessionDir) ==
    Get({r \in Active(rs) : r.session_dir = sessionDir})

getUsedSessionIds(rs, projectRoot) ==
    {r.session_id : r \in {q \in Active(rs) : q.project_root = projectRoot}}

\* ------------------------------------------------------- lib/worktree: findNextSessionId
\* A string of digits is the sequence of its digits: "007" is <<0, 0, 7>>.
LastSessionNumber == 999

\* String(i) for i >= 0: the decimal digits, no leading zero.
RECURSIVE String(_)
String(i) == IF i < 10 THEN <<i>> ELSE Append(String(i \div 10), i % 10)

\* s.padStart(targetLength, '0')
RECURSIVE padStart(_, _)
padStartNone(s, targetLength) == s

padStart(s, targetLength) ==
    IF Len(s) >= targetLength THEN s ELSE padStart(<<0>> \o s, targetLength)

\* What a call comes to: the id returned, or the error thrown.
Return(sessionId) == [threw |-> "", value |-> sessionId]
Throw(message) == [threw |-> message, value |-> <<>>]
NoAvailableSessionIds == "No available session IDs (001-999 all in use)"

\* for (let i = from; i <= to; i++) { ... if (!usedIds.has(sessionId)) return sessionId }
\* throw new Error(...): the loop returns at the first i whose id is free.
ForLoop(usedIds, from, to) ==
    LET free == {i \in from..to : padStart(String(i), 3) \notin usedIds}
    IN IF free = {} THEN Throw(NoAvailableSessionIds)
       ELSE Return(padStart(String(CHOOSE i \in free : \A j \in free : i <= j), 3))

findNextSessionIdStopsEarly(usedIds) == ForLoop(usedIds, 1, LastSessionNumber - 1)

findNextSessionId(usedIds) == ForLoop(usedIds, 1, LastSessionNumber)

\* The sets findNextSessionId is called with: the ids of 1..upTo, one of them
\* left out, one further id added ("1000" and the unpadded "7" are strings a
\* caller can pass as well).
UsedUpTo == (0..4) \cup ((LastSessionNumber - 3)..LastSessionNumber)
UsedGaps == {<<0, 0, 0>>, <<0, 0, 1>>, <<0, 0, 3>>, <<0, 1, 0>>, <<5, 0, 0>>,
             <<9, 9, 8>>, <<9, 9, 9>>}
UsedExtras == {<<0, 0, 1>>, <<0, 0, 2>>, <<0, 1, 0>>, <<9, 9, 9>>, <<1, 0, 0, 0>>, <<7>>}
UsedIdSets ==
    {({padStart(String(i), 3) : i \in 1..upTo} \ {gap}) \cup {extra} :
        upTo \in UsedUpTo, gap \in UsedGaps, extra \in UsedExtras}

FindNextSessionId ==
    /\ \E usedIds \in UsedIdSets :
         call' = [op |-> "findNextSessionId", usedIds |-> usedIds,
                  result |-> findNextSessionId(usedIds)]
    /\ UNCHANGED <<dbvars, storevars, we, cmdvars>>

SpecIds == Init /\ [][FindNextSessionId]_vars

\* ------------------------------------------------------- commands/with-env: withEnv
MaxExitCode == 2         \* a child exits with a code of 0..MaxExitCode

\* The directories withEnv is run in: the two session directories, a project
\* root that is no session, and a directory outside every project.
OutsideDir == "/tmp"
Cwds == Dirs \cup {"/b", OutsideDir}
\* dirname(dir), over the directories of the model's filesystem
dirname(dir) ==
    CASE dir = "/b/sessions/feature" -> "/b/sessions"
      [] dir = "/b/sessions" -> "/b"
      [] dir = "/a/pkg" -> "/a"
      [] OTHER -> "/"

NoProjectRoot == "Could not find prism.config.mjs in any parent directory"

\* A filesystem is the set of its config files, each <<directory, name>>.
\* existsSync(join(dir, 'prism.config.mjs')) || existsSync(join(dir, 'prism.config.js'))
existsConfig(files, dir) ==
    <<dir, "prism.config.mjs">> \in files \/ <<dir, "prism.config.js">> \in files

\* findProjectRoot: walk up until a directory holds a config file; throws at
\* the filesystem root, where dirname(dir) is dir.
RECURSIVE findProjectRootIn(_, _)
findProjectRootNoWalk(files, startDir) ==
    IF existsConfig(files, startDir) THEN startDir ELSE NoProjectRoot

findProjectRootIn(files, startDir) ==
    IF existsConfig(files, startDir) THEN startDir
    ELSE IF dirname(startDir) = startDir THEN NoProjectRoot
    ELSE findProjectRootIn(files, dirname(startDir))

\* The filesystem the commands of the model run in: projects /a and /b.
ProjectFiles == {<<"/a", "prism.config.mjs">>, <<"/b", "prism.config.mjs">>}
findProjectRoot(startDir) == findProjectRootIn(ProjectFiles, startDir)

\* findProjectRoot on its own: every start directory, every placement of
\* config files.
FsDirs == {"/", "/a", "/a/pkg", "/b", "/b/sessions", "/b/sessions/feature", "/tmp"}
FsFiles == FsDirs \X {"prism.config.mjs", "prism.config.js"}
MaxConfigFiles == 3      \* config files on the filesystem

FindProjectRoot ==
    /\ call.op = "none"
    /\ \E startDir \in FsDirs, files \in {f \in SUBSET FsFiles : Cardinality(f) <= MaxConfigFiles} :
         call' = [op |-> "findProjectRoot", startDir |-> startDir, files |-> files,
                  result |-> findProjectRootIn(files, startDir)]
    /\ UNCHANGED <<dbvars, storevars, we, cmdvars>>

SpecRoot == Init /\ [][FindProjectRoot]_vars

\* openDatabase: db.exec(SCHEMA) is CREATE TABLE IF NOT EXISTS, which leaves
\* the rows of a table that exists as they are.
openDatabaseRecreates(table) == {}

openDatabase(table) == table

\* getDbSession(db, cwd): the row whose id is the directory, or undefined.
getDbSession(sess, sessionId) == sessionId \in sess

\* The process environment: each key is unset or holds a string.
EnvKeys == {"PATH", "APP_PORT", "DB_PORT", "WEB_PORT", "PORT"}
InheritedEnvs ==
    {[k \in {"PATH"} \cup ks |-> IF k = "PATH" THEN "/usr/bin" ELSE "9999"] :
        ks \in SUBSET {"APP_PORT", "PORT"}}
AppNames == {Unset, "app"}

\* The env templates of the project's config: key -> the service whose port
\* the template ${service} names; with appName, the app's own templates too.
EnvTemplates(projectRoot, appName) ==
    LET global == IF projectRoot = "/a"
                  THEN {<<"APP_PORT", "app">>, <<"DB_PORT", "db">>}
                  ELSE {<<"WEB_PORT", "web">>}
        app == IF appName = Unset THEN {}
               ELSE {<<"PORT", IF projectRoot = "/a" THEN "app" ELSE "web">>}
    IN global \cup app

\* A template ${service} rendered with the ports: the port in decimal, or the
\* placeholder left verbatim when the ports do not name the service.
Render(service, ports) ==
    IF \E r \in ports : r.service = service
    THEN ToString((CHOOSE r \in ports : r.service = service).port)
    ELSE "${" \o service \o "}"

\* buildSessionEnv(config, cwd, ports, appName)
buildSessionEnv(projectRoot, ports, appName) ==
    LET t == EnvTemplates(projectRoot, appName)
    IN [k \in {x[1] : x \in t} |-> Render((CHOOSE x \in t : x[1] = k)[2], ports)]

\* { ...process.env, ...sessionEnv }
MergeUnder(env, sessionEnv) ==
    [k \in DOMAIN env \cup DOMAIN sessionEnv |->
        IF k \in DOMAIN env THEN env[k] ELSE sessionEnv[k]]

Merge(env, sessionEnv) ==
    [k \in DOMAIN env \cup DOMAIN sessionEnv |->
        IF k \in DOMAIN sessionEnv THEN sessionEnv[k] ELSE env[k]]

\* The try block of withEnv: the session environment, {} when the project root
\* or the session is missing or when a step of the block throws.
\* failure: the call of the block that throws, if one does.
Failures == {"none", "openDatabase", "loadConfig"}
SessionEnvUnchecked(cwd, sess, pa, appName, failure) ==
    buildSessionEnv(findProjectRoot(cwd), getPortAllocations(pa, cwd), appName)

SessionEnv(cwd, sess, pa, appName, failure) ==
    IF findProjectRoot(cwd) = NoProjectRoot \/ failure = "openDatabase" THEN EmptyEnv
    ELSE IF ~getDbSession(sess, cwd) THEN EmptyEnv
    ELSE IF failure = "loadConfig" THEN EmptyEnv
    ELSE buildSessionEnv(findProjectRoot(cwd), getPortAllocations(pa, cwd), appName)

\* withEnv is invoked: process.cwd(), process.env and the arguments.
WithEnvStart ==
    /\ we.pc = "none"
    /\ \E cwd \in Cwds, env \in InheritedEnvs, appName \in AppNames, empty \in BOOLEAN :
         we' = IF empty
               THEN [WithEnvIdle EXCEPT !.pc = "exited", !.cwd = cwd, !.env = env,
                                        !.appName = appName, !.reported = TRUE,
                                        !.exitCode = 1]
               ELSE [WithEnvIdle EXCEPT !.pc = "resolve", !.cwd = cwd, !.env = env,
                                        !.appName = appName]
    /\ UNCHANGED <<dbvars, storevars, call, cmdvars>>

\* The try block: findProjectRoot, openDatabase, getDbSession,
\* getPortAllocations, loadConfig, buildSessionEnv, db.close.
WithEnvResolve ==
    /\ we.pc = "resolve"
    /\ \E failure \in Failures :
         LET opened == findProjectRoot(we.cwd) # NoProjectRoot /\ failure # "openDatabase"
             found == opened /\ getDbSession(sessions, we.cwd)
         IN /\ we' = [we EXCEPT !.pc = "exec",
                                 !.found = found,
                                 !.rendered = found /\ failure = "none",
                                 !.sessionEnv = SessionEnv(we.cwd, sessions, port_allocations,
                                                           we.appName, failure)]
            /\ sessions' = IF opened THEN openDatabase(sessions) ELSE sessions
            /\ port_allocations' = IF opened THEN openDatabase(port_allocations)
                                    ELSE port_allocations
            /\ reservations' = IF opened THEN openDatabase(reservations) ELSE reservations
    /\ UNCHANGED <<wlock, pending, inv, storevars, call, cmdvars>>

\* What execa(cmd, args, {reject: false}) comes to: the child exits with a
\* code; a signal ends it or it cannot be spawned (ENOENT), and the result is
\* returned with exitCode undefined; or the call itself rejects (arguments
\* spawn refuses).
ChildOutcomes == {"exit", "signal", "not_found", "rejects"}

\* The lines after the try block: merge, execa, process.exit.
WithEnvExec ==
    /\ we.pc = "exec"
    /\ \E child \in ChildOutcomes, code \in 0..MaxExitCode :
         /\ child # "exit" => code = 0
         /\ we' = [we EXCEPT
                !.pc = "exited",
                !.child = child,
                !.childExitCode = code,
                !.childEnv = IF child \in {"exit", "signal"}
                             THEN Merge(we.env, we.sessionEnv) ELSE EmptyEnv,
                !.reported = (child = "rejects"),
                !.exitCode = IF child = "rejects" THEN 1
                             ELSE IF child = "exit" /\ code # 0 THEN code
                             ELSE 0]
    /\ UNCHANGED <<dbvars, storevars, call, cmdvars>>

\* The registry as withEnv can find it: sessions with all of their ports or
\* none, no port held twice.
AllRows ==
    UNION {{Row(d, ConfigPorts(d)[i], port) : i \in 1..Len(ConfigPorts(d)), port \in Ports} :
              d \in Dirs}
Registries ==
    {pa \in SUBSET AllRows :
        /\ \A r1, r2 \in pa : r1.port = r2.port => r1 = r2
        /\ \A r \in pa : Cardinality({q \in pa : q.session_id = r.session_id})
                             = Len(ConfigPorts(r.session_id))
        /\ \A r1, r2 \in pa :
              r1.session_id = r2.session_id /\ r1.service = r2.service => r1 = r2}

InitEnv ==
    /\ port_allocations \in Registries
    /\ sessions \in {ss \in SUBSET Dirs : {r.session_id : r \in port_allocations} \subseteq ss}
    /\ reservations \in SUBSET Reservable
    /\ wlock = NoProc
    /\ pending = {}
    /\ inv = [p \in Procs |-> Idle]
    /\ rows = {}
    /\ seq = 0
    /\ last = [op |-> "none", session_id |-> "", project_root |-> "", result |-> ""]
    /\ call = [op |-> "none", usedIds |-> {}, result |-> [threw |-> "", value |-> <<>>]]
    /\ we = WithEnvIdle
    /\ world = EmptyWorld
    /\ cmd = NoCmd
    /\ creating = [p \in Procs |-> NotCreating]

NextEnv ==
    \/ WithEnvStart
    \/ WithEnvResolve
    \/ WithEnvExec

SpecEnv == InitEnv /\ [][NextEnv]_vars

\* ------------------------------------------------------- lib/env: renderAppEnv
\* A string is the sequence of its characters: "${a}" is <<"$", "{", "a", "}">>.
MaxPortValue == 2        \* a template is rendered with ports of 1..MaxPortValue

DigitChars == <<"0", "1", "2", "3", "4", "5", "6", "7", "8", "9">>
\* String(portValue) as characters
Decimal(n) == [k \in 1..Len(String(n)) |-> DigitChars[String(n)[k] + 1]]

\* new RegExp(`\\$\\{${portName}\\}`, 'g'): the text the expression matches,
\* for a port name of letters and digits.
PatternPrefixOnly(portName) == <<"$", "{">> \o portName

Pattern(portName) == <<"$", "{">> \o portName \o <<"}">>

\* rendered.replace(regexp, replacement) with the g flag: the matches are taken
\* from left to right, each starting after the end of the one before.
RECURSIVE ReplaceAll(_, _, _)
ReplaceAll(s, pattern, replacement) ==
    IF Len(s) < Len(pattern) THEN s
    ELSE IF SubSeq(s, 1, Len(pattern)) = pattern
         THEN replacement \o ReplaceAll(SubSeq(s, Len(pattern) + 1, Len(s)), pattern, replacement)
         ELSE <<s[1]>> \o ReplaceAll(Tail(s), pattern, replacement)

\* The inner loop: for (const [portName, portValue] of Object.entries(ports)),
\* ports being the entries in the order of the object's keys.
RECURSIVE RenderValue(_, _)
RenderValue(value, ports) ==
    IF ports = <<>> THEN value
    ELSE RenderValue(ReplaceAll(value, Pattern(ports[1][1]), Decimal(ports[1][2])),
                     Tail(ports))

\* renderAppEnv(template, ports)
renderAppEnv(template, ports) ==
    [key \in DOMAIN template |-> RenderValue(template[key], ports)]

\* The inputs: port names a, a2 and b; template values put together from up to
\* three pieces, placeholders of known and unknown names, plain text, and an
\* opening and a closing part of a placeholder.
PortNames == {<<"a">>, <<"a", "2">>, <<"b">>}
Pieces == {<<"$", "{", "a", "}">>, <<"$", "{", "a", "2", "}">>, <<"$", "{", "b", "}">>,
           <<"$", "{", "z", "}">>, <<"x">>, <<"$", "{", "a">>, <<"}">>}
TemplateValues ==
    Pieces \cup {p \o q : p \in Pieces, q \in Pieces}
           \cup {p \o q \o r : p \in Pieces, q \in Pieces, r \in Pieces}
PortEntries ==
    {ports \in UNION {[1..n -> PortNames \X (1..MaxPortValue)] : n \in 0..2} :
        \A i, j \in 1..Len(ports) : ports[i][1] = ports[j][1] => i = j}

\* One call in a behaviour: the result depends on the arguments alone.
RenderAppEnv ==
    /\ call.op = "none"
    /\ \E value \in TemplateValues, ports \in PortEntries :
         LET template == [key \in {"URL"} |-> value]
         IN call' = [op |-> "renderAppEnv", template |-> template, ports |-> ports,
                     result |-> renderAppEnv(template, ports)]
    /\ UNCHANGED <<dbvars, storevars, we, cmdvars>>

SpecRender == Init /\ [][RenderAppEnv]_vars

\* ------------------------------------------------------- lib/ports: calculatePorts
\* The numeric value of a session id, a string of digits.
RECURSIVE parseInt(_)
parseInt(digits) ==
    IF digits = <<>> THEN 0
    ELSE 10 * parseInt(SubSeq(digits, 1, Len(digits) - 1)) + digits[Len(digits)]

\* The configurations: the documented one, base 47000 with APP 0, WEB 1 and
\* POSTGRES 10, and a second with another base and one service.
PortConfigs ==
    {[portBase |-> 47000, ports |-> [APP |-> 0, WEB |-> 1, POSTGRES |-> 10]],
     [portBase |-> 3000, ports |-> [API |-> 5]]}
ThreeDigitIds == {<<a, b, c>> : a \in 0..9, b \in 0..9, c \in 0..9} \ {<<0, 0, 0>>}

\* port = base + (sessionIndex x 100) + serviceOffset
calculatePortsTimesTen(config, sessionId) ==
    [name \in DOMAIN config.ports |->
        config.portBase + parseInt(sessionId) * 10 + config.ports[name]]

calculatePorts(config, sessionId) ==
    [name \in DOMAIN config.ports |->
        config.portBase + parseInt(sessionId) * 100 + config.ports[name]]

CalculatePorts ==
    /\ call.op = "none"
    /\ \E config \in PortConfigs, sessionId \in ThreeDigitIds :
         call' = [op |-> "calculatePorts", config |-> config, sessionId |-> sessionId,
                  result |-> calculatePorts(config, sessionId)]
    /\ UNCHANGED <<dbvars, storevars, we, cmdvars>>

SpecPorts == Init /\ [][CalculatePorts]_vars

\* ------------------------------------------------------- commands run one after another
\* One user runs the commands of one project one at a time; git, docker and the
\* disk are outside the program: each call into them succeeds or fails.
CmdRoot == "/projects/app-a"
Argv == {"001", "abc"}
\* The characters of a command-line argument.
Spelling(arg) ==
    CASE arg = "001" -> <<"0", "0", "1">>
      [] arg = "002" -> <<"0", "0", "2">>
      [] arg = "003" -> <<"0", "0", "3">>
      [] OTHER -> <<"a", "b", "c">>
\* /^\d{3}$/.test(sessionId)
ThreeDigits(sessionId) ==
    /\ Len(Spelling(sessionId)) = 3
    /\ \A i \in 1..3 : \E d \in 1..10 : Spelling(sessionId)[i] = DigitChars[d]

\* The id findNextSessionId returned, as the text the store keeps.
Text(digits) ==
    CHOOSE id \in {"001", "002", "003"} :
        Spelling(id) = [i \in 1..Len(digits) |-> DigitChars[digits[i] + 1]]

\* getSessionDir(config, projectRoot, sessionId): one directory per session id
\* under the sessions directory of the project.
getSessionDir(projectRoot, sessionId) == projectRoot \o "-sessions/session-" \o sessionId

\* What the outside does to one command: the calls that fail in it.
Ok(out, callName) == callName \notin out

\* removeWorktree: git worktree remove --force, and rmSync when git fails;
\* rmSync throwing leaves the function. The branch is deleted afterwards.
removeWorktree(w, sessionDir, out) ==
    IF sessionDir \notin w.worktrees
    THEN [threw |-> FALSE, world |-> w, procs |-> {"git branch -D"}]
    ELSE IF Ok(out, "git worktree remove") \/ Ok(out, "rmSync")
    THEN [threw |-> FALSE,
          world |-> [worktrees |-> w.worktrees \ {sessionDir},
                     envFiles |-> w.envFiles \ {sessionDir}],
          procs |-> {"git worktree remove", "git branch -D"}]
    ELSE [threw |-> TRUE, world |-> w, procs |-> {"git worktree remove"}]

\* What a command leaves behind: the store, the disk and its own record.
Ran(rs, sq, w, c) == [rows |-> rs, seq |-> sq, world |-> w, cmd |-> c]

Started(op, sessionId) ==
    [NoCmd EXCEPT !.variant = "A", !.op = op, !.sessionId = sessionId]

\* An error that leaves the command: the process ends with exit code 1.
Failed(c, step, error) ==
    [c EXCEPT !.exitCode = 1, !.failedAt = step, !.error = error]

\* store.insert(...) after store.remove(...): the new row of the session.
NewRow(sq, projectRoot, sessionId, sessionDir) ==
    [id |-> sq + 1, session_id |-> sessionId, project_root |-> projectRoot,
     session_dir |-> sessionDir, destroyed_at |-> Null]

\* createSession of the store generation, from new SessionStore() to its end.
\* The session id is the argument, or the one findNextSessionId assigns.
createSession(rs, sq, w, sessionId, inPlaceOpt, out) ==
    LET c0 == [Started("create", sessionId) EXCEPT !.opened = TRUE, !.inPlace = inPlaceOpt]
        sessionDir == IF inPlaceOpt THEN CmdRoot ELSE getSessionDir(CmdRoot, sessionId)
        w1 == IF inPlaceOpt THEN w
              ELSE [w EXCEPT !.worktrees = @ \cup {sessionDir}]
        c1 == IF inPlaceOpt THEN [c0 EXCEPT !.dir = sessionDir]
              ELSE [c0 EXCEPT !.dir = sessionDir, !.procs = {"git worktree add"}]
        w2 == [w1 EXCEPT !.envFiles = @ \cup {sessionDir}]
        c2 == [c1 EXCEPT !.procs = @ \cup {"docker compose up"}]
        removed == rs \ RemoveWhere(rs, CmdRoot, sessionId)
        undo == removeWorktree(w2, sessionDir, out)
    IN IF ~ThreeDigits(sessionId)
       THEN Ran(rs, sq, w, Failed(c0, "validate", "Session ID must be exactly 3 digits"))
       ELSE IF ~inPlaceOpt /\ sessionDir \in w.worktrees
       THEN Ran(rs, sq, w, Failed([c0 EXCEPT !.dir = sessionDir], "worktree",
                                  "Session directory already exists"))
       ELSE IF ~inPlaceOpt /\ ~Ok(out, "git worktree add")
       THEN Ran(rs, sq, w, Failed(c1, "worktree", "git worktree add failed"))
       ELSE IF ~Ok(out, "docker compose up")
       THEN Ran(rs, sq, w2, Failed(c2, "docker", "docker compose up failed"))
       ELSE IF ~Ok(out, "store.remove")
       THEN Ran(rs, sq, w2, Failed(c2, "remove", "dbErr"))
       ELSE IF Ok(out, "store.insert")
       THEN Ran(removed \cup {NewRow(sq, CmdRoot, sessionId, sessionDir)}, sq + 1, w2, c2)
       ELSE Ran(removed, sq,
                IF inPlaceOpt THEN w2 ELSE undo.world,
                Failed([c2 EXCEPT !.procs = @ \cup {"docker compose down"}
                                             \cup (IF inPlaceOpt THEN {} ELSE undo.procs)],
                       "insert", "dbErr"))

Apply(ran) ==
    /\ rows' = ran.rows
    /\ seq' = ran.seq
    /\ world' = ran.world
    /\ cmd' = ran.cmd
    /\ UNCHANGED <<dbvars, last, purevars, creating>>

CreateSessionA ==
    /\ cmd.variant \in {"none", "A"}
    /\ seq < MaxSessions
    /\ \E arg \in Argv \cup {Unset} :
        LET usedIds == {[i \in 1..3 |-> CHOOSE d \in 0..9 : DigitChars[d + 1] = Spelling(u)[i]]
                        : u \in getUsedSessionIds(rows, CmdRoot)}
            sessionId == IF arg = Unset THEN Text(findNextSessionId(usedIds).value) ELSE arg
        IN \E inPlaceOpt \in BOOLEAN,
              out \in {{}, {"git worktree add"}, {"docker compose up"}, {"store.remove"},
                       {"store.insert"},
                       {"store.insert", "git worktree remove"},
                       {"store.insert", "git worktree remove", "rmSync"}} :
            Apply(createSession(rows, seq, world, sessionId, inPlaceOpt, out))

\* startSession / stopSession: findSession, then docker compose in the
\* directory of the session.
startSession(rs, sq, w, op, sessionId, out) ==
    LET session == findSession(rs, CmdRoot, sessionId)
        c0 == [Started(IF op = "up" THEN "start" ELSE op, sessionId) EXCEPT !.opened = TRUE]
        c1 == [c0 EXCEPT !.dir = session.session_dir,
                         !.procs = {"docker compose " \o op}]
    IN IF session = Undefined
       THEN Ran(rs, sq, w, Failed(c0, "find", "Session not found"))
       ELSE IF Ok(out, "docker compose " \o op) THEN Ran(rs, sq, w, c1)
       ELSE Ran(rs, sq, w, Failed(c1, "docker", "docker compose failed"))

StartSession ==
    /\ cmd.variant \in {"none", "A"}
    /\ \E sessionId \in Argv, out \in {{}, {"docker compose up"}} :
        Apply(startSession(rows, seq, world, "up", sessionId, out))

StopSession ==
    /\ cmd.variant \in {"none", "A"}
    /\ \E sessionId \in Argv, out \in {{}, {"docker compose stop"}} :
        Apply(startSession(rows, seq, world, "stop", sessionId, out))

\* showInfo(cwd): the session is what .env.session in the directory says.
showInfo(rs, sq, w, cwd) ==
    IF cwd \notin w.envFiles
    THEN Ran(rs, sq, w, Failed([Started("info", "") EXCEPT !.dir = cwd], "find",
                               "No .env.session found"))
    ELSE Ran(rs, sq, w, [Started("info", "") EXCEPT !.dir = cwd,
                                                    !.procs = {"docker compose ps"}])

ShowInfo ==
    /\ cmd.variant \in {"none", "A"}
    /\ \E cwd \in {CmdRoot} \cup {getSessionDir(CmdRoot, id) : id \in {"001", "002"}} :
        Apply(showInfo(rows, seq, world, cwd))

\* pruneSessions: the sessions of projectRoot that docker does not report
\* running are removed one after another. docker.isRunning is asked per session
\* directory, and only where .env.session exists. A row written by
\* createSession has in_place = 1 exactly when its session_dir is the project
\* root.
Answers == {"y", "YES", "no"}

toLowerCase(answer) == IF answer = "YES" THEN "yes" ELSE answer

RECURSIVE PruneLoop(_, _, _, _, _, _)
PruneLoop(ran, projectRoot, stoppedSessions, i, stuck, now) ==
    IF i > Len(stoppedSessions) THEN ran
    ELSE LET session == stoppedSessions[i]
             down == IF session.session_dir \in ran.world.envFiles
                     THEN {"docker compose down"} ELSE {}
             removal == removeWorktree(ran.world, session.session_dir,
                                       IF session.session_id \in stuck
                                       THEN {"git worktree remove", "rmSync"} ELSE {})
             hit == MarkDestroyedWhere(ran.rows, projectRoot, session.session_id)
             c == [ran.cmd EXCEPT !.procs = @ \cup down, !.attempted = @ \cup {session.session_id}]
         IN IF session.session_dir = session.project_root
            THEN PruneLoop(Ran((ran.rows \ hit) \cup {[r EXCEPT !.destroyed_at = now] : r \in hit},
                               ran.seq, ran.world, c),
                           projectRoot, stoppedSessions, i + 1, stuck, now)
            ELSE IF removal.threw
            THEN PruneLoop(Ran(ran.rows, ran.seq, removal.world,
                               [c EXCEPT !.procs = @ \cup removal.procs,
                                         !.warned = @ \cup {session.session_id}]),
                           projectRoot, stoppedSessions, i + 1, stuck, now)
            ELSE PruneLoop(Ran((ran.rows \ hit) \cup {[r EXCEPT !.destroyed_at = now] : r \in hit},
                               ran.seq, removal.world,
                               [c EXCEPT !.procs = @ \cup removal.procs]),
                           projectRoot, stoppedSessions, i + 1, stuck, now)

pruneSessions(rs, sq, w, projectRoot, yes, answer, running, stuck, now) ==
    LET sessions_ == listByProject(rs, projectRoot)
        asked == {sessions_[i].session_dir : i \in 1..Len(sessions_)} \cap w.envFiles
        stoppedSessions == SelectSeq(sessions_,
                               LAMBDA s : ~(s.session_dir \in asked /\ s.session_dir \in running))
        c0 == [Started("prune", "") EXCEPT !.opened = TRUE, !.dir = projectRoot,
                   !.running = asked \cap running,
                   !.procs = IF asked # {} THEN {"docker compose ps"} ELSE {}]
        c1 == IF yes THEN c0 ELSE [c0 EXCEPT !.answer = answer]
    IN IF Len(sessions_) = 0 \/ Len(stoppedSessions) = 0
       THEN Ran(rs, sq, w, c0)
       ELSE IF ~yes /\ toLowerCase(answer) # "y" /\ toLowerCase(answer) # "yes"
       THEN Ran(rs, sq, w, c1)
       ELSE PruneLoop(Ran(rs, sq, w, [c1 EXCEPT !.confirmed = TRUE]),
                      projectRoot, stoppedSessions, 1, stuck, now)

PruneSessions ==
    /\ cmd.variant \in {"none", "A"}
    /\ \E projectRoot \in ProjectRoots, yes \in BOOLEAN, answer \in Answers,
          running \in SUBSET {r.session_dir : r \in Active(rows)},
          stuck \in SUBSET getUsedSessionIds(rows, CmdRoot), now \in Now :
        Apply(pruneSessions(rows, seq, world, projectRoot, yes, answer, running, stuck, now))

\* ------------------------------------------------------- commands of the port registry
\* The same user with the port-registry generation: a session is its working
\* directory, DirA in place and DirB a worktree with a branch.
RanB(sess, pa, w, c) == [sessions |-> sess, port_allocations |-> pa, world |-> w, cmd |-> c]

StartedB(op, dir) ==
    [NoCmd EXCEPT !.variant = "B", !.op = op, !.sessionId = dir, !.dir = dir]

\* The catch block of createSession: deleteDbSession, removeWorktree, throw error.
createSessionCatch(sess, pa, w, c, workingDir, step, error, out) ==
    LET undo == removeWorktree(w, workingDir, out)
    IN RanB(sess \ {workingDir}, Cascade(pa, workingDir),
            IF inPlace(workingDir) THEN w ELSE undo.world,
            Failed([c EXCEPT !.procs = @ \cup (IF inPlace(workingDir) THEN {} ELSE undo.procs)],
                   step, error))

\* createSession of the port-registry generation, run to its end. The ports
\* are the ones the probes of allocatePorts come back with.
createSessionB(sess, pa, res, w, workingDir, alloc, out) ==
    LET c0 == [StartedB("create", workingDir) EXCEPT !.opened = TRUE,
                                                     !.inPlace = inPlace(workingDir)]
        c1 == IF inPlace(workingDir) THEN c0 ELSE [c0 EXCEPT !.procs = {"git worktree add"}]
        w1 == IF inPlace(workingDir) THEN w ELSE [w EXCEPT !.worktrees = @ \cup {workingDir}]
        sess1 == sess \cup {workingDir}
    IN IF getDbSession(sess, workingDir)
       THEN RanB(sess, pa, w, Failed(c0, "exists", "Session already exists for this directory."))
       ELSE IF ~inPlace(workingDir) /\ workingDir \in w.worktrees
       THEN createSessionCatch(sess, pa, w, c0, workingDir, "worktree",
                               "Session directory already exists", out)
       ELSE IF ~inPlace(workingDir) /\ ~Ok(out, "git worktree add")
       THEN createSessionCatch(sess, pa, w, c1, workingDir, "worktree",
                               "git worktree add failed", out)
       ELSE IF ~Ok(out, "createDbSession")
       THEN createSessionCatch(sess, pa, w1, c1, workingDir, "insert", "dbErr", out)
       ELSE IF ~alloc.ok \/ ~Ok(out, "allocatePorts")
       THEN createSessionCatch(sess1, pa, w1, c1, workingDir, "ports",
                               IF alloc.ok THEN "dbErr" ELSE NOPORT, out)
       ELSE RanB(sess1, pa \cup {alloc.allocations[i] : i \in 1..Len(alloc.allocations)}, w1, c1)

ApplyB(ran) ==
    /\ sessions' = ran.sessions
    /\ port_allocations' = ran.port_allocations
    /\ world' = ran.world
    /\ cmd' = ran.cmd
    /\ UNCHANGED <<reservations, wlock, pending, inv, storevars, purevars, creating>>

CreateSessionB ==
    /\ cmd.variant \in {"none", "B"}
    /\ \E workingDir \in Dirs,
          out \in {{}, {"git worktree add"}, {"createDbSession"}, {"allocatePorts"},
                   {"allocatePorts", "git worktree remove"},
                   {"allocatePorts", "git worktree remove", "rmSync"}} :
        \E alloc \in ProbeLoop(workingDir, ConfigPorts(workingDir),
                               getAllocatedPorts(port_allocations) \cup getReservedPorts(reservations),
                               <<>>) :
            ApplyB(createSessionB(sessions, port_allocations, reservations, world,
                                  workingDir, alloc, out))

\* destroySingleSession: the row first, then the worktree when the session has
\* a branch and lies under the sessions directory of the project.
destroySingleSession(ran, projectRoot, sessionId, out) ==
    LET undo == removeWorktree(ran.world, sessionId, out)
        c == [ran.cmd EXCEPT !.attempted = @ \cup {sessionId}]
    IN IF ~inPlace(sessionId) /\ findProjectRoot(sessionId) = projectRoot
          /\ sessionId \in ran.world.worktrees
       THEN RanB(ran.sessions \ {sessionId}, Cascade(ran.port_allocations, sessionId),
                 undo.world,
                 [c EXCEPT !.procs = @ \cup undo.procs,
                           !.warned = IF undo.threw THEN @ \cup {sessionId} ELSE @])
       ELSE RanB(ran.sessions \ {sessionId}, Cascade(ran.port_allocations, sessionId),
                 ran.world, c)

\* for (const session of sessions) await destroySingleSession(...)
RECURSIVE DestroyLoop(_, _, _, _)
DestroyLoop(ran, projectRoot, todo, out) ==
    IF todo = {} THEN ran
    ELSE LET sessionId == CHOOSE d \in todo : TRUE
         IN DestroyLoop(destroySingleSession(ran, projectRoot, sessionId, out),
                        projectRoot, todo \ {sessionId}, out)

destroySession(sess, pa, w, workingDir, all, out) ==
    LET projectRoot == findProjectRoot(workingDir)
        c0 == StartedB(IF all THEN "destroy --all" ELSE "destroy", workingDir)
        c1 == [c0 EXCEPT !.opened = TRUE]
    IN IF projectRoot = NoProjectRoot
       THEN RanB(sess, pa, w, Failed(c0, "root", "Could not find prism.config.mjs"))
       ELSE IF all
       THEN DestroyLoop(RanB(sess, pa, w, c1), projectRoot, sess, out)
       ELSE IF ~getDbSession(sess, workingDir)
       THEN RanB(sess, pa, w, Failed(c1, "find", "No session found"))
       ELSE destroySingleSession(RanB(sess, pa, w, c1), projectRoot, workingDir, out)

DestroySession ==
    /\ cmd.variant \in {"none", "B"}
    /\ \E workingDir \in Cwds, all \in BOOLEAN,
          out \in {{}, {"git worktree remove"}, {"git worktree remove", "rmSync"}} :
        ApplyB(destroySession(sessions, port_allocations, world, workingDir, all, out))

\* showEnv: findProjectRoot(cwd), getDbSession(db, cwd), then the environment
\* goes to stdout or to the file of --write.
showEnv(sess, pa, w, cwd) ==
    LET c0 == StartedB("env", cwd)
        c1 == [c0 EXCEPT !.opened = TRUE]
    IN IF findProjectRoot(cwd) = NoProjectRoot
       THEN RanB(sess, pa, w, Failed(c0, "root", "Could not find prism.config.mjs"))
       ELSE IF ~getDbSession(sess, cwd)
       THEN RanB(sess, pa, w, Failed(c1, "find", "No session found for this directory."))
       ELSE RanB(sess, pa, w, c1)

ShowEnv ==
    /\ cmd.variant \in {"none", "B"}
    /\ \E cwd \in Cwds : ApplyB(showEnv(sessions, port_allocations, world, cwd))

NextCmd ==
    \/ CreateSessionA
    \/ StartSession
    \/ StopSession
    \/ ShowInfo
    \/ PruneSessions
    \/ CreateSessionB
    \/ DestroySession
    \/ ShowEnv

SpecCmd == Init /\ [][NextCmd]_vars

\* ------------------------------------------------------- lib/env: .env.session, written and read
\* Text is the sequence of its characters.
AutoGenerated ==
    <<"#", " ", "A", "u", "t", "o", "-", "g", "e", "n", "e", "r", "a", "t", "e", "d", " ", "s", "e", "s", "s", "i", "o", "n", " ", "e", "n", "v", "i", "r", "o", "n", "m", "e", "n", "t">>
PortsComment ==
    <<"#", " ", "P", "o", "r", "t", "s", " ", "(", "u", "s", "e", "d", " ", "b", "y", " ", "d", "o", "c", "k", "e", "r", "-", "c", "o", "m", "p", "o", "s", "e", ".", "s", "e", "s", "s", "i", "o", "n", ".", "y", "m", "l", ")">>
SESSION_ID == <<"S", "E", "S", "S", "I", "O", "N", "_", "I", "D">>
COMPOSE_PROJECT_NAME ==
    <<"C", "O", "M", "P", "O", "S", "E", "_", "P", "R", "O", "J", "E", "C", "T", "_", "N", "A", "M", "E">>

\* lines.join(sep)
RECURSIVE Join(_, _)
Join(lines, sep) ==
    IF lines = <<>> THEN <<>>
    ELSE IF Len(lines) = 1 THEN lines[1]
    ELSE lines[1] \o sep \o Join(Tail(lines), sep)

\* generateEnvContent: two comment lines, SESSION_ID, COMPOSE_PROJECT_NAME, a
\* blank line, one NAME=port line for each entry of ports, each line ended by
\* a newline.
generateEnvContent(sessionId, ports, projectName) ==
    LET lines == <<AutoGenerated,
                   SESSION_ID \o <<"=">> \o sessionId,
                   COMPOSE_PROJECT_NAME \o <<"=">> \o projectName \o <<"-">> \o sessionId,
                   <<>>,
                   PortsComment>>
                 \o [i \in 1..Len(ports) |-> ports[i][1] \o <<"=">> \o Decimal(ports[i][2])]
    IN Join(lines, <<"\n">>) \o <<"\n">>

\* envContent.split('\n')
RECURSIVE split(_, _)
split(text, sep) ==
    IF \A i \in 1..Len(text) : text[i] # sep THEN <<text>>
    ELSE LET at == CHOOSE i \in 1..Len(text) :
                       text[i] = sep /\ \A j \in 1..(i - 1) : text[j] # sep
         IN <<SubSeq(text, 1, at - 1)>> \o split(SubSeq(text, at + 1, Len(text)), sep)

\* line.match(/^([^=]+)=(.*)$/): the key is what stands before the first '=',
\* at least one character; the value is the rest, and '.' matches no line
\* terminator. No match is <<>>.
LineTerminators == {"\n", "\r"}
matchLastEquals(line) ==
    IF \A i \in 1..Len(line) : line[i] # "=" THEN <<>>
    ELSE LET at == CHOOSE i \in 1..Len(line) :
                       line[i] = "=" /\ \A j \in (i + 1)..Len(line) : line[j] # "="
         IN <<SubSeq(line, 1, at - 1), SubSeq(line, at + 1, Len(line))>>

match(line) ==
    IF \A i \in 1..Len(line) : line[i] # "=" THEN <<>>
    ELSE LET at == CHOOSE i \in 1..Len(line) :
                       line[i] = "=" /\ \A j \in 1..(i - 1) : line[j] # "="
             value == SubSeq(line, at + 1, Len(line))
         IN IF at = 1 \/ \E i \in 1..Len(value) : value[i] \in LineTerminators
            THEN <<>>
            ELSE <<SubSeq(line, 1, at - 1), value>>

\* for (const line of lines) { if (match) env[match[1]] = match[2] }: env is
\* the set of its <<key, value>> entries, a later line replacing an earlier one.
RECURSIVE ParseLines(_, _)
ParseLines(lines, env) ==
    IF lines = <<>> THEN env
    ELSE LET m == match(lines[1])
         IN ParseLines(Tail(lines),
                       IF m = <<>> THEN env
                       ELSE {e \in env : e[1] # m[1]} \cup {m})

\* showInfo: the parse of .env.session
parseEnvSession(envContent) == ParseLines(split(envContent, "\n"), {})

\* The session ids and project names a file is written for.
EnvSessionIds == {<<"0", "0", "1">>, <<"0", "4", "2">>}
NameChars == {"p", "=", "#", "\n", "\r"}
MaxNameLen == 2
ProjectNames == UNION {[1..n -> NameChars] : n \in 0..MaxNameLen}

\* One call in a behaviour: the file is written, then parsed.
WriteAndParse ==
    /\ call.op = "none"
    /\ \E sessionId \in EnvSessionIds, ports \in PortEntries, projectName \in ProjectNames :
         LET envContent == generateEnvContent(sessionId, ports, projectName)
         IN call' = [op |-> "envSession", sessionId |-> sessionId, ports |-> ports,
                     projectName |-> projectName, result |-> envContent,
                     env |-> parseEnvSession(envContent)]
    /\ UNCHANGED <<dbvars, storevars, we, cmdvars>>

SpecEnvFile == Init /\ [][WriteAndParse]_vars

\* ------------------------------------------------------- create, two processes at once
\* createSession of the store generation in two processes of one project. A
\* process is suspended at each await, and the other may run in between.
Creating(p, r) == creating' = [creating EXCEPT ![p] = r]

\* new SessionStore(); sessionId = findNextSessionId(store.getUsedSessionIds(projectRoot))
AssignSessionId(p) ==
    /\ creating[p].pc = "idle"
    /\ \E inPlaceOpt \in BOOLEAN :
        LET usedIds == {[i \in 1..3 |-> CHOOSE d \in 0..9 : DigitChars[d + 1] = Spelling(u)[i]]
                        : u \in getUsedSessionIds(rows, CmdRoot)}
            sessionId == Text(findNextSessionId(usedIds).value)
        IN Creating(p, [pc |-> "directory", sessionId |-> sessionId, inPlace |-> inPlaceOpt,
                        sessionDir |-> IF inPlaceOpt THEN CmdRoot
                                       ELSE getSessionDir(CmdRoot, sessionId)])
    /\ UNCHANGED <<dbvars, storevars, purevars, world, cmd>>

\* The session directory: the project root, or await createWorktree(...),
\* which throws when the directory exists; then .env.session is written.
CreateDirectory(p) ==
    /\ creating[p].pc = "directory"
    /\ LET c == creating[p]
       IN IF ~c.inPlace /\ c.sessionDir \in world.worktrees
          THEN /\ Creating(p, [c EXCEPT !.pc = "threw"])
               /\ UNCHANGED world
          ELSE /\ Creating(p, [c EXCEPT !.pc = "up"])
               /\ world' = [worktrees |-> IF c.inPlace THEN world.worktrees
                                          ELSE world.worktrees \cup {c.sessionDir},
                            envFiles |-> world.envFiles \cup {c.sessionDir}]
    /\ UNCHANGED <<dbvars, storevars, purevars, cmd>>

\* await docker.up(...): the services start, or the error leaves createSession.
StartServices(p) ==
    /\ creating[p].pc = "up"
    /\ \E ok \in BOOLEAN :
        Creating(p, [creating[p] EXCEPT !.pc = IF ok THEN "record" ELSE "threw"])
    /\ UNCHANGED <<dbvars, storevars, purevars, world, cmd>>

\* store.remove(projectRoot, sessionId); store.insert({...}); the success
\* message. A failing insert leads to the cleanup and throw dbErr.
RecordSession(p) ==
    /\ creating[p].pc = "record"
    /\ seq < MaxSessions
    /\ LET c == creating[p]
           removed == rows \ RemoveWhere(rows, CmdRoot, c.sessionId)
       IN \E out \in {{}, {"store.insert"}} :
            IF Ok(out, "store.insert")
            THEN /\ rows' = removed \cup {NewRow(seq, CmdRoot, c.sessionId, c.sessionDir)}
                 /\ seq' = seq + 1
                 /\ Creating(p, [c EXCEPT !.pc = "ready"])
                 /\ UNCHANGED world
            ELSE /\ rows' = removed
                 /\ UNCHANGED seq
                 /\ Creating(p, [c EXCEPT !.pc = "threw"])
                 /\ world' = IF c.inPlace THEN world
                             ELSE removeWorktree(world, c.sessionDir, out).world
    /\ UNCHANGED <<dbvars, last, purevars, cmd>>

\* The process ends; the next create of the user starts a new one.
EndCreate(p) ==
    /\ creating[p].pc \in {"ready", "threw"}
    /\ Creating(p, NotCreating)
    /\ UNCHANGED <<dbvars, storevars, purevars, world, cmd>>

NextCreate ==
    \E p \in Procs :
        \/ AssignSessionId(p)
        \/ CreateDirectory(p)
        \/ StartServices(p)
        \/ RecordSession(p)
        \/ EndCreate(p)

SpecCreate == Init /\ [][NextCreate]_vars

NextStore ==
    \/ Insert
    \/ MarkDestroyed
    \/ Remove

SpecStore == Init /\ [][NextStore]_vars

Next ==
    \/ \E p \in Procs :
        \/ CreateCheck(p)
        \/ CreateWorktree(p)
        \/ CreateDbSession(p)
        \/ CreateCleanup(p)
        \/ ReadAllocated(p)
        \/ ReadReserved(p)
        \/ TxnInsert(p)
        \/ TxnCommit(p)
        \/ Kill(p)
        \/ Destroy(p)
        \/ DestroyAll(p)
        \/ DestroySingleSession(p)
        \/ Exit(p)
    \/ ReservePort
    \/ UnreservePort

Spec == Init /\ [][Next]_vars

\* ======================================================== properties
Services(dir) == {ConfigPorts(dir)[i] : i \in 1..Len(ConfigPorts(dir))}
Running(p) == inv[p].pc \notin {"idle", "returned", "threw", "exited", "killed"}

\* p takes a step of its commit (an insert.run or the COMMIT), not a kill.
CommitStep(p) ==
    /\ inv[p].pc \in {"a_txn", "a_commit"}
    /\ inv'[p] # inv[p]
    /\ inv'[p].pc # "killed"

\* The row the next insert.run of p writes.
NextRow(p) == inv[p].allocations[Cardinality(IF wlock = p THEN pending ELSE {}) + 1]

\* C1: in every reachable state no two port_allocations rows hold the same
\* port, whatever sessions or projects they belong to.
C1_PortsGloballyUnique ==
    \A r1, r2 \in port_allocations : r1.port = r2.port => r1 = r2

\* Sessions of two projects hold ports at once, one of them allocated on a
\* retry after its first commit had collided.
C1_Witness ==
    /\ \E r1, r2 \in port_allocations : r1.session_id # r2.session_id
    /\ \E p \in Procs : inv[p].pc = "returned" /\ inv[p].op = "create" /\ inv[p].attempt = 2

\* C2: in every state the committed table shows, a session holds none of the
\* service ports of its allocatePorts call or all of them, also after a commit
\* that failed part-way and after a kill inside the transaction.
C2_AllOrNothing ==
    \A dir \in Dirs :
        LET held == {r.service : r \in getPortAllocations(port_allocations, dir)}
        IN held = {} \/ held = Services(dir)

\* An invocation was killed inside the two-row transaction of DirA, and another
\* one is inside its transaction with one of DirA's two rows written.
C2_Witness ==
    \E p, q \in Procs :
        /\ inv[p].pc = "killed" /\ inv[p].dir = DirA
        /\ inv[q].pc = "a_txn" /\ inv[q].dir = DirA /\ wlock = q /\ Cardinality(pending) = 1

\* C3: the ports one attempt of allocatePorts records are pairwise distinct,
\* and none of them was allocated or reserved when the attempt read the
\* exclusion set.
C3_ProbedPortsFresh ==
    [][\A p \in Procs :
         inv[p].pc = "a_readRes" /\ inv'[p].pc = "a_txn" =>
            LET allocs == inv'[p].allocations
            IN /\ Len(allocs) = Len(ConfigPorts(inv[p].dir))
               /\ \A i, j \in 1..Len(allocs) : allocs[i].port = allocs[j].port => i = j
               /\ AllocationPorts(allocs) \cap (inv[p].seenAllocated \cup reservations) = {}]_vars

\* An attempt has probed two ports for DirA while the session of DirB holds
\* the third.
C3_Witness ==
    \E p \in Procs :
        /\ inv[p].pc = "a_txn" /\ inv[p].dir = DirA /\ Len(inv[p].allocations) = 2
        /\ wlock = NoProc
        /\ \E r \in port_allocations :
              r.session_id = DirB /\ r.port \notin AllocationPorts(inv[p].allocations)

\* C4: allocatePorts makes a second attempt if and only if the first commit
\* failed with SQLITE_CONSTRAINT_UNIQUE; the second attempt reads the exclusion
\* set again; there is no third attempt; any other first failure is raised at
\* once and commits no row.
C4_RetryOnceOnUnique ==
    /\ [](\A p \in Procs :
            /\ inv[p].attempt \in {1, 2}
            /\ inv[p].attempt = 2 <=> inv[p].firstError = UNIQUE
            /\ inv[p].firstError \in {PRIMARYKEY, FOREIGNKEY} =>
                  inv[p].pc \in {"c_cleanup", "threw"} /\ inv[p].error = inv[p].firstError)
    /\ [][\A p \in Procs :
            /\ CommitStep(p) /\ inv'[p].firstError # inv[p].firstError =>
                  /\ port_allocations' = port_allocations
                  /\ inv[p].attempt = 1
                  /\ inv'[p].pc = IF inv'[p].firstError = UNIQUE THEN "a_read" ELSE "c_cleanup"
            /\ CommitStep(p) /\ inv[p].attempt = 2 => inv'[p].pc # "a_read"
            /\ inv[p].pc = "a_read" /\ inv'[p].pc = "a_readRes" =>
                  inv'[p].excludePorts = {r.port : r \in port_allocations}]_vars

\* A first commit failed on the port of another session and was retried; the
\* second commit failed on the foreign key (the session row had been deleted)
\* and was raised to createSession without a third attempt.
C4_Witness ==
    \E p \in Procs :
        /\ inv[p].pc = "c_cleanup" /\ inv[p].attempt = 2
        /\ inv[p].firstError = UNIQUE /\ inv[p].error = FOREIGNKEY

\* C5 as claimed: when the first commit was rejected for a colliding port and
\* no port of the retry's batch has been committed by another writer, the
\* retry's commit succeeds.
C5_Original ==
    [][\A p \in Procs :
         /\ CommitStep(p) /\ inv[p].attempt = 2
         /\ AllocationPorts(inv[p].allocations) \cap getAllocatedPorts(port_allocations) = {}
         => inv'[p].pc \in {"a_txn", "a_commit", "returned"}]_vars

\* C5 amended: when the first commit was rejected for a colliding port, no
\* port of the retry's batch has been committed by another writer, the session
\* row still exists and the session has no allocation rows, the retry's commit
\* succeeds: allocatePorts returns, the batch is in the registry and the ports
\* of the registry are unique.
C5_RetrySucceeds ==
    [][\A p \in Procs :
         /\ CommitStep(p) /\ inv[p].attempt = 2
         /\ AllocationPorts(inv[p].allocations) \cap getAllocatedPorts(port_allocations) = {}
         /\ inv[p].dir \in sessions
         /\ getPortAllocations(port_allocations, inv[p].dir) = {}
         => /\ inv'[p].pc \in {"a_txn", "a_commit", "returned"}
            /\ inv'[p].pc = "returned" =>
                  /\ AllocationRows(inv[p].allocations) \subseteq port_allocations'
                  /\ \A r1, r2 \in port_allocations' : r1.port = r2.port => r1 = r2]_vars

\* A create has returned on its second attempt while the other session holds
\* a port.
C5_Witness ==
    \E p \in Procs :
        /\ inv[p].pc = "returned" /\ inv[p].op = "create" /\ inv[p].attempt = 2
        /\ getPortAllocations(port_allocations, inv[p].dir) # {}
        /\ \E r \in port_allocations : r.session_id # inv[p].dir

\* C6: when the second commit hits a port that is taken, allocatePorts raises
\* SQLITE_CONSTRAINT_UNIQUE to its caller, nothing is committed and the session
\* holds none of the requested ports; and allocatePorts returns only when the
\* whole batch is committed.
C6_SecondViolationFatal ==
    [][\A p \in Procs :
         /\ /\ CommitStep(p) /\ inv[p].pc = "a_txn" /\ inv[p].attempt = 2
            /\ \E r \in port_allocations \cup pending : r.port = NextRow(p).port
            /\ getPortAllocations(port_allocations, inv[p].dir) = {}
            => /\ inv'[p].pc = "c_cleanup" /\ inv'[p].error = UNIQUE
               /\ port_allocations' = port_allocations
               /\ getPortAllocations(port_allocations', inv[p].dir) = {}
         /\ Running(p) /\ inv[p].pc \notin {"d_delete"} /\ inv'[p].pc = "returned" =>
               /\ Len(inv[p].allocations) = Len(ConfigPorts(inv[p].dir))
               /\ AllocationRows(inv[p].allocations) \subseteq port_allocations']_vars

\* A create is in its catch block with the uniqueness violation of its second
\* commit.
C6_Witness ==
    \E p \in Procs :
        inv[p].pc = "c_cleanup" /\ inv[p].attempt = 2 /\ inv[p].error = UNIQUE

\* C7 as claimed: no port is committed to port_allocations while it is in the
\* reservations table.
C7_Original ==
    [][{r.port : r \in port_allocations' \ port_allocations} \cap reservations = {}]_vars

\* C7 amended: no port that was in the reservations table when an attempt of
\* allocatePorts read it (getReservedPorts) is probed by that attempt, and the
\* rows the attempt commits are the ports it probed.
C7_ReservedWhenReadExcluded ==
    [][/\ \A p \in Procs :
            inv[p].pc = "a_readRes" /\ inv'[p].pc = "a_txn" =>
               AllocationPorts(inv'[p].allocations) \cap reservations = {}
       /\ port_allocations' \ port_allocations # {} =>
            \E p \in Procs : /\ inv[p].pc = "a_commit"
                             /\ port_allocations' \ port_allocations
                                  = AllocationRows(inv[p].allocations)]_vars

\* A create has committed its ports while a port is reserved.
C7_Witness ==
    \E p \in Procs :
        /\ inv[p].pc = "returned" /\ inv[p].op = "create"
        /\ getPortAllocations(port_allocations, inv[p].dir) # {}
        /\ reservations # {}
        /\ getAllocatedPorts(port_allocations) \cap reservations = {}

\* C8: every port_allocations row refers to an existing sessions row:
\* deleting a session removes its allocations in the same step.
C8_NoOrphans ==
    \A r \in port_allocations : r.session_id \in sessions

\* A destroy has deleted a session together with its allocation rows, and a
\* session created afterwards holds ports.
C8_Witness ==
    \E p, q \in Procs :
        /\ inv[p].pc = "returned" /\ inv[p].op = "destroy" /\ inv[p].cascaded
        /\ inv[p].dir \notin sessions
        /\ inv[q].pc = "returned" /\ inv[q].op = "create"
        /\ Cardinality(getPortAllocations(port_allocations, inv[q].dir)) = 2

\* C9: a session has at most one row per service, and a commit of allocatePorts
\* for a session that has a row for the service fails with
\* SQLITE_CONSTRAINT_PRIMARYKEY and leaves port_allocations as it was.
C9_OnePortPerService ==
    /\ [](\A r1, r2 \in port_allocations :
            r1.session_id = r2.session_id /\ r1.service = r2.service => r1 = r2)
    /\ [][\A p \in Procs :
            /\ CommitStep(p) /\ inv[p].pc = "a_txn"
            /\ \E r \in port_allocations :
                  r.session_id = inv[p].dir /\ r.service = NextRow(p).service
            => /\ inv'[p].pc = "c_cleanup" /\ inv'[p].error = PRIMARYKEY
               /\ port_allocations' = port_allocations]_vars

\* A second allocatePorts for a session that holds its ports has failed on the
\* primary key; the session still holds them.
C9_Witness ==
    \E p \in Procs :
        /\ inv[p].pc = "c_cleanup" /\ inv[p].firstError = PRIMARYKEY
        /\ Cardinality(getPortAllocations(port_allocations, inv[p].dir)) = 2

\* C10: there is at most one active row per (session_id, project_root), and
\* an insert of a pair that has an active row throws the UNIQUE constraint
\* error and leaves the store unchanged.
C10_ActivePairUnique ==
    /\ [](\A r1, r2 \in Active(rows) :
            r1.session_id = r2.session_id /\ r1.project_root = r2.project_root => r1 = r2)
    /\ [][/\ last'.op = "insert"
          /\ \E r \in Active(rows) : /\ r.session_id = last'.session_id
                                     /\ r.project_root = last'.project_root
          => /\ last'.result = "UNIQUE constraint failed"
             /\ rows' = rows /\ seq' = seq]_vars

\* An insert of a pair with an active row has thrown, while the same session
\* id is active in the other project too.
C10_Witness ==
    /\ last.op = "insert" /\ last.result = "UNIQUE constraint failed"
    /\ \E r1, r2 \in Active(rows) :
         /\ r1.session_id = last.session_id /\ r1.project_root = last.project_root
         /\ r2.session_id = last.session_id /\ r2.project_root # last.project_root

\* C11 as stated: an insert fails if and only if an active row with the same
\* (session_id, project_root) exists; in particular it succeeds when the only
\* row of the pair has been marked destroyed.
C11_InsertFailsIffActiveRow ==
    [][last'.op = "insert" =>
         (last'.result = "UNIQUE constraint failed"
            <=> \E r \in rows : /\ r.destroyed_at = Null
                                /\ r.session_id = last'.session_id
                                /\ r.project_root = last'.project_root)]_vars

\* C12: in every state of the store the reads return only rows whose
\* destroyed_at is null; listByProject(p) is exactly the active rows of p, each
\* once, in ascending session_id order; getUsedSessionIds(p) is the set of
\* their session ids.
C12_ReadsSeeActiveRowsOnly ==
    LET live == {r \in rows : r.destroyed_at = Null}
        range(q) == {q[i] : i \in 1..Len(q)}
    IN /\ range(listAll(rows)) \subseteq live
       /\ \A d \in SessionDirs :
             findByDir(rows, d) # Undefined => findByDir(rows, d) \in live
       /\ \A p \in ProjectRoots :
            LET l == listByProject(rows, p)
                ofP == {r \in live : r.project_root = p}
            IN /\ range(l) = ofP
               /\ Len(l) = Cardinality(ofP)
               /\ \A i, j \in 1..Len(l) : i < j => TextLess(l[i].session_id, l[j].session_id)
               /\ getUsedSessionIds(rows, p) = {r.session_id : r \in ofP}
               /\ \A sid \in SessionIds :
                    findSession(rows, p, sid) # Undefined => findSession(rows, p, sid) \in live

\* A project has two active rows, inserted in descending id order, and a
\* destroyed row is in the table.
C12_Witness ==
    /\ \E r \in rows : r.destroyed_at # Null
    /\ \E r1, r2 \in rows :
         /\ r1.destroyed_at = Null /\ r2.destroyed_at = Null
         /\ r1.project_root = r2.project_root
         /\ r1.session_id = "002" /\ r2.session_id = "001" /\ r1.id < r2.id

\* C13: markDestroyed returns true exactly when an active row of the pair
\* existed, and then sets its destroyed_at and nothing else; otherwise it returns
\* false and the table is unchanged; a second call for the same pair right after
\* a first leaves the table, timestamps included, as the first left it.
C13_MarkDestroyedIdempotent ==
    [][last'.op = "markDestroyed" =>
         LET hit == {r \in rows : /\ r.destroyed_at = Null
                                  /\ r.session_id = last'.session_id
                                  /\ r.project_root = last'.project_root}
         IN /\ last'.result = "true" <=> hit # {}
            /\ hit = {} => rows' = rows
            /\ hit # {} =>
                 /\ rows \ hit \subseteq rows'
                 /\ \A r \in hit : \E t \in Now : [r EXCEPT !.destroyed_at = t] \in rows'
                 /\ Cardinality(rows') = Cardinality(rows)
            /\ (/\ last.op = "markDestroyed"
                /\ last.session_id = last'.session_id
                /\ last.project_root = last'.project_root)
               => rows' = rows /\ last'.result = "false"]_vars

\* markDestroyed has just returned false for a pair whose row is destroyed.
C13_Witness ==
    /\ last.op = "markDestroyed" /\ last.result = "false"
    /\ \E r \in rows : /\ r.session_id = last.session_id
                        /\ r.project_root = last.project_root
                        /\ r.destroyed_at # Null

\* C14: remove returns true exactly when a row of the pair existed and deletes
\* it, after which findSession for the pair is undefined; otherwise it returns
\* false and the table is unchanged; rows of other pairs are never touched.
C14_RemoveFrame ==
    [][last'.op = "remove" =>
         LET hit == {r \in rows : /\ r.session_id = last'.session_id
                                  /\ r.project_root = last'.project_root}
         IN /\ last'.result = "true" <=> hit # {}
            /\ rows' = rows \ hit
            /\ findSession(rows', last'.project_root, last'.session_id) = Undefined]_vars

\* remove has returned true while a row of the same session id in the other
\* project stays.
C14_Witness ==
    /\ last.op = "remove" /\ last.result = "true"
    /\ \E r \in rows : r.session_id = last.session_id /\ r.project_root # last.project_root

\* C15: for every set of used ids findNextSessionId returns the smallest
\* three-digit id of "001".."999" that is not in the set, never an id of the
\* set, and throws 'No available session IDs' exactly when all 999 are in it.
C15_SmallestUnusedId ==
    LET ThreeDigit == {<<a, b, c>> : a \in 0..9, b \in 0..9, c \in 0..9} \ {<<0, 0, 0>>}
        value(t) == 100 * t[1] + 10 * t[2] + t[3]
        free == ThreeDigit \ call.usedIds
    IN call.op = "findNextSessionId" =>
        /\ call.result.threw = NoAvailableSessionIds <=> free = {}
        /\ free # {} =>
              /\ call.result.threw = ""
              /\ call.result.value \in free
              /\ \A t \in free : value(call.result.value) <= value(t)

\* findNextSessionId has filled a gap below used ids, and, in another call,
\* has returned "999", the last id there is.
C15_Witness ==
    /\ call.op = "findNextSessionId"
    /\ \/ call.result.value = <<0, 0, 3>> /\ <<0, 0, 4>> \in call.usedIds
       \/ call.result.value = <<9, 9, 9>>

\* C16: when no project root is found, or a project root is found but the
\* current directory is no registered session, the child runs with the
\* inherited environment: no key added, removed or changed.
C16_PassThrough ==
    we.pc = "exited" /\ we.child \in {"exit", "signal"}
    /\ (we.cwd \in {OutsideDir} \/ we.cwd \notin sessions)
    => we.childEnv = we.env

\* A child has run in a project root that is no session while the registry
\* holds a session with ports, and the environment defines a key the project's
\* templates name.
C16_Witness ==
    /\ we.pc = "exited" /\ we.child = "exit" /\ we.cwd = "/b"
    /\ DirB \in sessions /\ port_allocations # {}
    /\ "PORT" \in DOMAIN we.env /\ we.appName = "app"

\* C17: when withEnv finds the session of the current directory and renders
\* its environment, the child's environment is the inherited one overlaid with
\* it: every session key has the session's value, also when the inherited
\* environment defines the key, and every other inherited key keeps its value.
C17_SessionValuesWin ==
    we.pc = "exited" /\ we.child \in {"exit", "signal"} /\ we.rendered
    => LET ports == {r \in port_allocations : r.session_id = we.cwd}
           rendered == buildSessionEnv(findProjectRoot(we.cwd), ports, we.appName)
       IN /\ DOMAIN rendered # {}
          /\ DOMAIN we.childEnv = DOMAIN we.env \cup DOMAIN rendered
          /\ \A k \in DOMAIN rendered : we.childEnv[k] = rendered[k]
          /\ \A k \in DOMAIN we.env \ DOMAIN rendered : we.childEnv[k] = we.env[k]

\* A child has run in a session whose rendered APP_PORT differs from the
\* APP_PORT the inherited environment defines.
C17_Witness ==
    /\ we.pc = "exited" /\ we.child = "exit" /\ we.rendered /\ we.cwd = DirA
    /\ "APP_PORT" \in DOMAIN we.env
    /\ \E r \in port_allocations : r.session_id = DirA /\ r.service = "app"
    /\ we.childEnv["APP_PORT"] # we.env["APP_PORT"]

\* C18 as stated: however the child ends, withEnv exits with the child's exit
\* code, and a child that did not succeed never makes withEnv exit with 0.
C18_ExitCodePropagated ==
    we.pc = "exited" /\ we.child \in {"exit", "signal"}
    => /\ we.child = "exit" => we.exitCode = we.childExitCode
       /\ we.child = "signal" => we.exitCode # 0

\* C19 as stated: when the child cannot be started (binary not found),
\* withEnv reports the error and exits with a non-zero code.
C19_NotFoundExitsNonZero ==
    we.pc = "exited" /\ we.child = "not_found"
    => we.reported /\ we.exitCode # 0

\* C20: no step of withEnv, on any of its paths, changes the rows of sessions,
\* port_allocations or reservations.
C20_RegistryReadOnly ==
    [][we' # we => /\ sessions' = sessions
                   /\ port_allocations' = port_allocations
                   /\ reservations' = reservations]_vars

\* withEnv has run to its end with a failing child in a session, over a
\* registry that holds sessions, ports and a reservation.
C20_Witness ==
    /\ we.pc = "exited" /\ we.found /\ we.child = "exit" /\ we.exitCode # 0
    /\ sessions = Dirs /\ Cardinality(port_allocations) = 3 /\ reservations # {}

\* The template value read once from left to right: a ${name} whose name is a
\* key of the ports becomes the port in decimal, every other character stays.
RECURSIVE SinglePass(_, _)
SinglePass(value, ports) ==
    IF value = <<>> THEN <<>>
    ELSE LET hits == {i \in 1..Len(ports) :
                         /\ Len(value) >= Len(ports[i][1]) + 3
                         /\ SubSeq(value, 1, Len(ports[i][1]) + 3)
                              = <<"$", "{">> \o ports[i][1] \o <<"}">>}
         IN IF hits # {}
            THEN LET i == CHOOSE i \in hits : TRUE
                 IN Decimal(ports[i][2])
                      \o SinglePass(SubSeq(value, Len(ports[i][1]) + 4, Len(value)), ports)
            ELSE <<value[1]>> \o SinglePass(Tail(value), ports)

\* C21 as stated: the renderer replaces every ${name} of the template whose
\* name is a key of the ports by the port in decimal and leaves every other
\* ${name} and all other text as written.
C21_RendersPlaceholdersOnly ==
    call.op = "renderAppEnv" =>
        \A key \in DOMAIN call.template :
            call.result[key] = SinglePass(call.template[key], call.ports)

\* The number of places of s where the text pattern starts.
Occurrences(s, pattern) ==
    Cardinality({i \in 1..Len(s) :
                    /\ i + Len(pattern) - 1 <= Len(s)
                    /\ SubSeq(s, i, i + Len(pattern) - 1) = pattern})

\* C22 as stated: a placeholder is matched as a whole token, ${a} is never
\* substituted inside ${a2}, and the rendered result is the same for every
\* order in which the port names are substituted.
C22_ExactTokenAnyOrder ==
    call.op = "renderAppEnv" =>
        LET a2 == <<"$", "{", "a", "2", "}">>
            names == {call.ports[i][1] : i \in 1..Len(call.ports)}
            entries(ports) == {ports[i] : i \in 1..Len(ports)}
        IN /\ <<"a", "2">> \notin names =>
                \A key \in DOMAIN call.template :
                    Occurrences(call.result[key], a2) >= Occurrences(call.template[key], a2)
           /\ \A other \in PortEntries :
                entries(other) = entries(call.ports)
                => renderAppEnv(call.template, other) = call.result

\* C23: the arithmetic port of a service is base + 100 x the number the
\* session id spells + the service's offset, the same for the same id and
\* configuration: with base 47000, APP 0 and POSTGRES 10, session 001 has 47100
\* and 47110, session 002 has 47200 and 47210.
C23_ArithmeticPorts ==
    call.op = "calculatePorts" =>
        LET id == call.sessionId
            index == 100 * id[1] + 10 * id[2] + id[3]
        IN /\ DOMAIN call.result = DOMAIN call.config.ports
           /\ \A name \in DOMAIN call.result :
                call.result[name] = call.config.portBase + index * 100 + call.config.ports[name]
           /\ call.config.portBase = 47000 /\ id = <<0, 0, 1>>
                => call.result["APP"] = 47100 /\ call.result["POSTGRES"] = 47110
           /\ call.config.portBase = 47000 /\ id = <<0, 0, 2>>
                => call.result["APP"] = 47200 /\ call.result["POSTGRES"] = 47210

\* The ports of session 002 have been computed from the documented
\* configuration.
C23_Witness ==
    /\ call.op = "calculatePorts" /\ call.sessionId = <<0, 0, 2>>
    /\ call.config.portBase = 47000 /\ call.result["POSTGRES"] = 47210

\* C24: for every start directory findProjectRoot ends; it returns the
\* nearest of the start directory and its ancestors that holds a config file,
\* and throws exactly when none of them up to the root holds one.
C24_NearestProjectRoot ==
    call.op = "findProjectRoot" =>
        LET Up == [d \in FsDirs |->
                     CASE d = "/b/sessions/feature" -> <<d, "/b/sessions", "/b", "/">>
                       [] d = "/b/sessions" -> <<d, "/b", "/">>
                       [] d = "/a/pkg" -> <<d, "/a", "/">>
                       [] d = "/" -> <<d>>
                       [] OTHER -> <<d, "/">>]
            chain == Up[call.startDir]
            marked == {i \in 1..Len(chain) :
                          \E f \in call.files : f[1] = chain[i]}
        IN /\ call.result = NoProjectRoot <=> marked = {}
           /\ marked # {} =>
                \E i \in marked : /\ call.result = chain[i]
                                  /\ \A j \in marked : i <= j

\* findProjectRoot has passed a directory without config file and returned
\* the nearer of two ancestors that hold one.
C24_Witness ==
    /\ call.op = "findProjectRoot" /\ call.startDir = "/b/sessions/feature"
    /\ call.result = "/b/sessions"
    /\ \E f \in call.files : f[1] = "/b"
    /\ \E f \in call.files : f[1] = "/b/sessions" /\ f[2] = "prism.config.js"

\* C25: a command that requires an existing session (destroy without --all,
\* start, stop, env, info), run when the session is absent or destroyed, exits
\* with a non-zero code, leaves the registry as it was and starts no external
\* process.
SessionAbsent(c) ==
    CASE c.op \in {"start", "stop"} -> findSession(rows, CmdRoot, c.sessionId) = Undefined
      [] c.op = "info" -> findByDir(rows, c.dir) = Undefined
      [] c.op \in {"destroy", "env"} -> ~getDbSession(sessions, c.dir)
      [] OTHER -> FALSE

C25_SessionRequired ==
    [][SessionAbsent(cmd') =>
         /\ cmd'.exitCode # 0
         /\ cmd'.procs = {}
         /\ rows' = rows /\ sessions' = sessions /\ port_allocations' = port_allocations]_vars

\* C26: a create command whose session id fails validation exits with a
\* non-zero code before the registry is opened and before any worktree, file
\* or child process is created.
C26_ValidationBeforeRegistry ==
    [][(cmd'.op = "create" /\ cmd'.failedAt = "validate") =>
         /\ cmd'.exitCode # 0
         /\ ~cmd'.opened
         /\ cmd'.procs = {}
         /\ world' = world
         /\ rows' = rows]_vars

\* C27: on destroy and prune, a session whose docker or worktree step failed
\* (the command warned about it) is marked destroyed or deleted in the
\* registry all the same, and every other session the command set out to
\* remove is gone from the active sessions too.
C27_CleanupFailureOnlyWarns ==
    /\ cmd.op = "prune" =>
         \A id \in cmd.attempted : findSession(rows, CmdRoot, id) = Undefined
    /\ cmd.op \in {"destroy", "destroy --all"} =>
         \A dir \in cmd.attempted : ~getDbSession(sessions, dir)

\* C28: when a registry write of a create command fails after the worktree
\* or the services were created, the command stops the services it started,
\* removes the worktree it created (unless the removal itself fails), leaves
\* no session row and no port row of the session behind, and ends with the
\* error of the registry write, whatever the cleanup did.
RegistryWriteFailed == cmd.op = "create" /\ cmd.failedAt \in {"remove", "insert", "ports"}

C28_CompensatingCleanup ==
    RegistryWriteFailed =>
        /\ cmd.exitCode # 0
        /\ cmd.error \in {"dbErr", NOPORT}
        /\ cmd.variant = "A" =>
             /\ "docker compose down" \in cmd.procs
             /\ findSession(rows, CmdRoot, cmd.sessionId) = Undefined
        /\ cmd.variant = "B" =>
             /\ ~getDbSession(sessions, cmd.dir)
             /\ getPortAllocations(port_allocations, cmd.dir) = {}
        /\ ~cmd.inPlace =>
             \/ cmd.dir \notin world.worktrees
             \/ "git worktree remove" \in cmd.procs /\ "git branch -D" \notin cmd.procs

\* C30: after a create command that failed at a step following the worktree
\* creation (docker start, port allocation, registry write), nothing the
\* command created remains: no worktree, no session row, no port allocation.
FailedAfterWorktree ==
    cmd.op = "create" /\ cmd.failedAt \in {"docker", "remove", "insert", "ports"}

C30_CreateAllOrNothing ==
    FailedAfterWorktree =>
        /\ ~cmd.inPlace => cmd.dir \notin world.worktrees
        /\ cmd.variant = "A" => findSession(rows, CmdRoot, cmd.sessionId) = Undefined
        /\ cmd.variant = "B" =>
             /\ ~getDbSession(sessions, cmd.dir)
             /\ getPortAllocations(port_allocations, cmd.dir) = {}

\* C29: the file generateEnvContent writes, read back by the parser of the
\* info command, gives exactly the pairs written (SESSION_ID, the compose
\* project name and every port), whenever the project name holds no line
\* break; the comment lines and the blank line give no entry.
NoNewline(value) == \A i \in 1..Len(value) : value[i] \notin LineTerminators

WrittenPairs(sessionId, ports, projectName) ==
    {<<SESSION_ID, sessionId>>,
     <<COMPOSE_PROJECT_NAME, projectName \o <<"-">> \o sessionId>>}
        \cup {<<ports[i][1], Decimal(ports[i][2])>> : i \in 1..Len(ports)}

DerivedPorts(r) ==
    LET config == CHOOSE c \in PortConfigs : c.portBase = 47000
        sessionId == [i \in 1..3 |-> CHOOSE d \in 0..9 :
                                        DigitChars[d + 1] = Spelling(r.session_id)[i]]
        ports == calculatePorts(config, sessionId)
    IN {ports[name] : name \in DOMAIN ports}

C31_DisjointDerivedPorts ==
    \A r, q \in Active(rows) : r # q => DerivedPorts(r) \cap DerivedPorts(q) = {}

\* C32: when allocatePorts returns normally, the list it returns is exactly
\* the rows it committed for the session, which are then all the rows of the
\* session: one per requested service, in the order of the services, on the
\* first attempt and on the retry alike.
AllocatePortsReturns(p) == inv[p].pc = "a_commit" /\ inv'[p].pc = "returned"

C32_ReturnsCommittedRows ==
    [][\A p \in Procs : AllocatePortsReturns(p) =>
         LET returned == inv[p].allocations
             services == ConfigPorts(inv[p].dir)
         IN /\ Len(returned) = Len(services)
            /\ \A i \in 1..Len(services) :
                 /\ returned[i].service = services[i]
                 /\ returned[i].session_id = inv[p].dir
            /\ port_allocations' \ port_allocations
                 = {returned[i] : i \in 1..Len(returned)}
            /\ getPortAllocations(port_allocations', inv[p].dir)
                 = {returned[i] : i \in 1..Len(returned)}]_vars

C32_Witness ==
    \E p \in Procs :
        /\ inv[p].pc = "returned"
        /\ inv[p].op = "create"
        /\ inv[p].attempt = 2
        /\ Cardinality(getPortAllocations(port_allocations, inv[p].dir)) = 2

\* C33: a create command that fails before it inserted its session row (the
\* worktree step or the session insert failed) deletes no session row and no
\* port allocation: the rows another invocation inserted for the same working
\* directory are still in the registry after its cleanup.
FailedBeforeOwnInsert(p) ==
    /\ inv[p].pc = "c_cleanup"
    /\ inv[p].firstError = OK
    /\ inv[p].error \in {PRIMARYKEY, WORKTREE}

C33_CleanupDeletesOwnRowsOnly ==
    [][\A p \in Procs : (FailedBeforeOwnInsert(p) /\ inv'[p].pc = "threw") =>
         /\ sessions' = sessions
         /\ port_allocations' = port_allocations]_vars

\* C34: when create fails because the session directory existed before the
\* command ran, its cleanup leaves that directory and its branch in place:
\* nothing on the disk changes and no branch is deleted.
DirectoryExisted ==
    cmd'.op = "create" /\ cmd'.failedAt = "worktree"
        /\ cmd'.error = "Session directory already exists"

C34_CleanupRemovesOwnWorktreeOnly ==
    [][DirectoryExisted =>
         /\ world' = world
         /\ cmd'.procs \cap {"git worktree remove", "git branch -D"} = {}]_vars

\* C35: a create command neither deletes nor replaces the row of an active
\* session: every row that was active before the command is in the store,
\* with the same fields, after it.
C35_CreateKeepsActiveRows ==
    [][(cmd'.op = "create" /\ cmd'.variant = "A") =>
         \A r \in Active(rows) : r \in rows']_vars

\* C36: when two create commands without a session id run at the same time in
\* one project and both report success, their session ids differ and both
\* sessions are active rows of the store.
BothReady(p, q) == p # q /\ creating[p].pc = "ready" /\ creating[q].pc = "ready"

C36_ConcurrentAutoAssignDistinct ==
    \A p, q \in Procs : BothReady(p, q) =>
        /\ creating[p].sessionId # creating[q].sessionId
        /\ findSession(rows, CmdRoot, creating[p].sessionId) # Undefined
        /\ findSession(rows, CmdRoot, creating[q].sessionId) # Undefined

\* C37: destroy --all run in one project leaves the sessions of every other
\* project of the registry alone: their session rows and their port
\* allocations are what they were.
C37_DestroyAllWithinProject ==
    [][cmd'.op = "destroy --all" =>
         \A d \in sessions :
             findProjectRoot(d) # findProjectRoot(cmd'.dir) =>
                 /\ d \in sessions'
                 /\ getPortAllocations(port_allocations', d)
                      = getPortAllocations(port_allocations, d)]_vars

\* C38: for every three-digit session id create accepts, every port derived
\* from base 47000 is a valid TCP port number: at most 65535.
C38_DerivedPortsValid ==
    (call.op = "calculatePorts" /\ call.config.portBase = 47000) =>
        \A name \in DOMAIN call.result : call.result[name] <= 65535

\* C39: in every state of the session store no two active sessions have the
\* same session_dir: findByDir finds at most one active session, and two
\* create --in-place commands in one project do not leave two active
\* sessions for the project root.
C39_ActiveDirUnique ==
    \A r, q \in Active(rows) : r.session_dir = q.session_dir => r = q

\* The rows and directories a prune has to leave alone: what belongs to another
\* project, what docker reported running, and everything when the prompt was
\* answered with something else than y or yes.
PruneDeclined == ~cmd'.confirmed /\ cmd'.answer # ""

PruneKeeps(r) ==
    \/ r.project_root # cmd'.dir
    \/ r.session_dir \in cmd'.running
    \/ PruneDeclined

\* C40: prune changes only sessions of the current project that are not
\* running: rows of running sessions and of other projects stay as they are
\* and keep their worktree, the only change to a row is its destruction
\* timestamp, and after an answer other than y or yes no row is marked
\* destroyed and no worktree or docker resource is removed.
C40_PruneFrame ==
    [][cmd'.op = "prune" =>
        /\ \A r \in rows : PruneKeeps(r) => r \in rows'
        /\ \A r \in rows' \ rows :
              \E old \in Active(rows) \ rows' :
                  /\ ~PruneKeeps(old)
                  /\ r = [old EXCEPT !.destroyed_at = r.destroyed_at]
        /\ \A d \in (world.worktrees \ world'.worktrees) \cup (world.envFiles \ world'.envFiles) :
              \E r \in Active(rows) : r.session_dir = d /\ ~PruneKeeps(r)
        /\ PruneDeclined =>
              /\ rows' = rows
              /\ world' = world
              /\ cmd'.procs \subseteq {"docker compose ps"}]_vars

\* A confirmed prune has marked a stopped session destroyed and removed its
\* worktree while a running session of the project kept its row and directory.
C40_Witness ==
    /\ cmd.op = "prune"
    /\ cmd.confirmed
    /\ cmd.running # {}
    /\ \E r \in Active(rows) : r.session_dir \in cmd.running /\ r.session_dir \in world.worktrees
    /\ \E r \in rows : r.destroyed_at # Null /\ r.session_id \in cmd.attempted
                       /\ r.session_dir \notin world.worktrees
====
